---- MODULE Spec2Model ----
(***************************************************************************)
(* A model of the GRF container codec of beam-formats (src/beam-formats/   *)
(* src/grf.rs): create_new, open, extract_file, patch_file and save, the   *)
(* rebuild-and-swap commit, one filesystem step at a time, over a disk     *)
(* that holds the container and its `.grf.bak` sibling.                    *)
(***************************************************************************)
EXTENDS Integers, Sequences, FiniteSets, TLC

(***************************************************************************)
(* Byte strings.                                                           *)
(*                                                                         *)
(* A byte string is a sequence of chunks.  The chunk [k, n, off, v] stands *)
(* for the n bytes at offsets off .. off+n-1 of a source stream:           *)
(*   k = "fill"  : the byte v repeated (off is always 0);                  *)
(*   k = "noise" : incompressible content number v;                        *)
(*   k = "z"     : the zlib stream that deflating the byte string v gives; *)
(*   k = "tbl"   : the serialised file table whose records are v.          *)
(* Byte strings are kept normalised (no empty chunk, adjacent chunks of    *)
(* one stream merged), so that two byte strings are equal exactly when     *)
(* they hold the same bytes.                                               *)
(***************************************************************************)

Min(a, b) == IF a <= b THEN a ELSE b

Chunk(k, v, off, n) == [k |-> k, n |-> n, off |-> off, v |-> v]

Fill(b, n) == IF n = 0 THEN << >> ELSE << Chunk("fill", b, 0, n) >>

Noise(id, n) == IF n = 0 THEN << >> ELSE << Chunk("noise", id, 0, n) >>

RECURSIVE BLen(_)
BLen(bs) == IF bs = << >> THEN 0 ELSE Head(bs).n + BLen(Tail(bs))

Mergeable(a, c) ==
    /\ a.k = c.k
    /\ a.v = c.v
    /\ (a.k = "fill" \/ a.off + a.n = c.off)

NormAppend(acc, c) ==
    IF c.n = 0 THEN acc
    ELSE IF acc = << >> THEN << c >>
    ELSE LET l == acc[Len(acc)] IN
         IF Mergeable(l, c)
         THEN [acc EXCEPT ![Len(acc)] = [l EXCEPT !.n = l.n + c.n]]
         ELSE Append(acc, c)

RECURSIVE NormFrom(_, _)
NormFrom(acc, bs) ==
    IF bs = << >> THEN acc ELSE NormFrom(NormAppend(acc, Head(bs)), Tail(bs))

Norm(bs) == NormFrom(<< >>, bs)

Cat(a, b) == NormFrom(a, b)

RECURSIVE Drop(_, _)
Drop(bs, o) ==
    IF o = 0 \/ bs = << >> THEN bs
    ELSE LET c == Head(bs) IN
         IF o >= c.n THEN Drop(Tail(bs), o - c.n)
         ELSE << [c EXCEPT !.n = c.n - o,
                           !.off = IF c.k = "fill" THEN 0 ELSE c.off + o] >>
              \o Tail(bs)

RECURSIVE Take(_, _)
Take(bs, n) ==
    IF n = 0 \/ bs = << >> THEN << >>
    ELSE LET c == Head(bs) IN
         IF n >= c.n THEN << c >> \o Take(Tail(bs), n - c.n)
         ELSE << [c EXCEPT !.n = n] >>

Slice(bs, o, n) == Take(Drop(bs, o), n)

\* The byte at offset i (i < BLen(bs)).  The bytes of a fill are known (they
\* are below 128 in this model); the bytes of the other streams are not
\* modelled and read as -1.
RECURSIVE ByteAt(_, _)
ByteAt(bs, i) ==
    LET c == Head(bs) IN
    IF i < c.n THEN (IF c.k = "fill" THEN c.v ELSE -1)
    ELSE ByteAt(Tail(bs), i - c.n)

\* u32::from_le_bytes of the four bytes at offset o.  Four bytes of a stream
\* whose bytes are not modelled give -1, which stands for a value above
\* every file length of the model: the read that uses it as a length or an
\* offset runs past the end of the file.
ReadU32(bs, o) ==
    IF \E j \in 0..3 : ByteAt(bs, o + j) < 0 THEN -1
    ELSE ByteAt(bs, o) + 256 * ByteAt(bs, o + 1) + 65536 * ByteAt(bs, o + 2)
         + 16777216 * ByteAt(bs, o + 3)

\* v.to_le_bytes() of a u32.
U32LE(x) ==
    Norm(Fill(x % 256, 1) \o Fill((x \div 256) % 256, 1)
         \o Fill((x \div 65536) % 256, 1) \o Fill((x \div 16777216) % 256, 1))

(***************************************************************************)
(* zlib.  ZlibEncoder turns a byte string d into one self-delimiting       *)
(* stream; its length is 6 bytes of framing plus at most 3 bytes for a run *)
(* of one byte and the full length of incompressible content.              *)
(***************************************************************************)
RECURSIVE ZCost(_)
ZCost(d) ==
    IF d = << >> THEN 0
    ELSE (IF Head(d).k = "fill" THEN Min(Head(d).n, 3) ELSE Head(d).n)
         + ZCost(Tail(d))

ZLen(d) == 6 + ZCost(d)

Deflate(d) == << Chunk("z", d, 0, ZLen(d)) >>

Ok(x) == [ok |-> TRUE, err |-> "", val |-> x]

Err(e) == [ok |-> FALSE, err |-> e, val |-> << >>]

\* ZlibDecoder::read_to_end: a complete stream gives its content and the
\* bytes after it are not read; an input that ends inside the stream gives
\* the part decoded so far without an error; anything else is a corrupt
\* stream.
Inflate(bs) ==
    IF bs = << >> THEN Ok(<< >>)
    ELSE LET c == Head(bs) IN
         IF c.k = "z" /\ c.off = 0 /\ c.n = ZLen(c.v) THEN Ok(c.v)
         ELSE IF c.k = "z" /\ c.off = 0 /\ Len(bs) = 1
              THEN Ok(Take(c.v, (BLen(c.v) * c.n) \div ZLen(c.v)))
         ELSE Err("corrupt deflate stream")

(***************************************************************************)
(* Program constants.                                                      *)
(***************************************************************************)
GRF_HEADER_SIZE == 46

GRF_VERSION_0X101 == 257

GRF_VERSION_0X102 == 258

GRF_VERSION_0X103 == 259

GRF_VERSION_0X200 == 512

GRF_VERSION_0X300 == 768

\* save compresses the files longer than this many bytes.
COMPRESS_THRESHOLD == 1024

(***************************************************************************)
(* Maps (HashMap<String, _>): functions on a finite set of filenames.  A   *)
(* filename is its sequence of bytes.                                      *)
(***************************************************************************)
EmptyMap == << >>

Put(m, key, val) ==
    [x \in DOMAIN m \cup {key} |-> IF x = key THEN val ELSE m[x]]

(***************************************************************************)
(* GrfEntry and the serialised file table.                                 *)
(***************************************************************************)
GrfEntry(filename, csize, aligned, usize, flags, offset) ==
    [filename |-> filename, compressed_size |-> csize,
     compressed_size_aligned |-> aligned, uncompressed_size |-> usize,
     flags |-> flags, offset |-> offset]

\* One record of the 0x200 table: the filename, a NUL, four u32 and one u8.
RecordLen(e) == Len(e.filename) + 1 + 17

RECURSIVE TableLen(_)
TableLen(recs) ==
    IF recs = << >> THEN 0 ELSE RecordLen(Head(recs)) + TableLen(Tail(recs))

\* table_data of save: the records of new_entries.values(), in the order the
\* map iterates.
TableData(recs) ==
    IF recs = << >> THEN << >>
    ELSE << Chunk("tbl", recs, 0, TableLen(recs)) >>

\* The record loop of read_file_table over the decompressed table: a record
\* whose filename is empty ends the loop, the records before it are kept.
RECURSIVE ParseRecords(_, _)
ParseRecords(recs, acc) ==
    IF recs = << >> THEN acc
    ELSE IF Head(recs).filename = << >> THEN acc
    ELSE ParseRecords(Tail(recs), Put(acc, Head(recs).filename, Head(recs)))

\* The same loop over any buffer.  A buffer that is no serialised table is
\* read byte by byte: a leading NUL is an empty filename and ends the loop;
\* every other buffer of this model (a NUL-free run, or a short text
\* followed by fewer than 17 bytes) ends inside a record, and read_exact
\* fails.
ParseTable(data) ==
    IF data = << >> THEN Ok(EmptyMap)
    ELSE LET c == Head(data) IN
         IF Len(data) = 1 /\ c.k = "tbl" /\ c.off = 0 /\ c.n = TableLen(c.v)
         THEN Ok(ParseRecords(c.v, EmptyMap))
         ELSE IF ByteAt(data, 0) = 0 THEN Ok(EmptyMap)
         ELSE Err("io")

(***************************************************************************)
(* Files.  A file is its 46-byte header (hdr: whether it has been written; *)
(* magic: whether bytes 0..14 are the GRF magic; the u32 fields at offsets *)
(* 30, 34, 38 and 42) and the bytes after the header.  st records how the  *)
(* file came to be: "absent", "partial" (created by save and not yet       *)
(* finished) or "complete" (every write of its writer was made).           *)
(***************************************************************************)
NoFile ==
    [st |-> "absent", hdr |-> FALSE, magic |-> FALSE, toff |-> 0, seed |-> 0,
     count |-> 0, ver |-> 0, body |-> << >>]

\* File::create: an empty file.
CreatedFile == [NoFile EXCEPT !.st = "partial"]

\* The seven header writes of create_new and of save: the magic, a NUL, the
\* key, FileTableOffset 0, Seed 0, FilesCount 0 and the version.
WithHeader(f, version) ==
    [f EXCEPT !.hdr = TRUE, !.magic = TRUE, !.toff = 0, !.seed = 0,
              !.count = 0, !.ver = version]

\* read_exact of n bytes at offset pos of the bytes after the header.
\* Reading no byte succeeds wherever the cursor is.
FileRead(f, pos, n) ==
    IF n = 0 THEN Ok(<< >>)
    ELSE IF n < 0 \/ pos < 0 \/ pos + n > BLen(f.body) THEN Err("io")
    ELSE Ok(Slice(f.body, pos, n))

\* read_file_table, version 0x200: FileTableOffset at 30; at that offset
\* after the header the compressed and the plain table size, then the
\* compressed table.
ReadTable200(f) ==
    LET table_offset == f.toff
        meta == FileRead(f, table_offset, 8)
    IN  IF ~meta.ok THEN Err("io")
        ELSE LET table_compressed_size == ReadU32(meta.val, 0)
                 compressed_table ==
                     FileRead(f, table_offset + 8, table_compressed_size)
             IN  IF ~compressed_table.ok THEN Err("io")
                 ELSE LET table_data == Inflate(compressed_table.val)
                      IN  IF ~table_data.ok THEN Err("io")
                          ELSE ParseTable(table_data.val)

\* read_file_table, version 0x300: five u32 from offset 34 (file count,
\* seed, table offset, table size, compressed table size), so the table
\* offset is the u32 at 42 and the two sizes are the first eight bytes
\* after the header; the compressed table lies at the table offset.
ReadTable300(f) ==
    LET meta == FileRead(f, 0, 8)
    IN  IF ~meta.ok THEN Err("io")
        ELSE LET table_offset == f.ver
                 table_compressed_size == ReadU32(meta.val, 4)
                 compressed_table ==
                     FileRead(f, table_offset, table_compressed_size)
             IN  IF ~compressed_table.ok THEN Err("io")
                 ELSE LET table_data == Inflate(compressed_table.val)
                      IN  IF ~table_data.ok THEN Err("decompression")
                          ELSE ParseTable(table_data.val)

\* read_file_table, versions 0x101..0x103: the file count is the u32 at 30
\* and that many records follow the header.  The record bytes of the legacy
\* layout are not modelled: only the empty table is read.
ReadTableLegacy(f) ==
    LET file_count == f.toff
    IN  IF file_count = 0 THEN Ok(EmptyMap) ELSE Err("io")

ReadFileTable(f, version) ==
    IF version = GRF_VERSION_0X300 THEN ReadTable300(f)
    ELSE IF version = GRF_VERSION_0X200 THEN ReadTable200(f)
    ELSE ReadTableLegacy(f)

KnownVersions ==
    {GRF_VERSION_0X101, GRF_VERSION_0X102, GRF_VERSION_0X103,
     GRF_VERSION_0X200, GRF_VERSION_0X300}

\* A handle: struct Grf without file_path (the model has one path).
Grf(version, entries, pending) ==
    [version |-> version, entries |-> entries, pending_patches |-> pending]

NoGrf == Grf(0, EmptyMap, EmptyMap)

\* Grf::open on the file f.
OpenGrf(f) ==
    IF f.st = "absent" \/ ~f.hdr THEN Err("io")
    ELSE IF ~f.magic THEN Err("InvalidGrfHeader")
    ELSE IF f.ver \notin KnownVersions THEN Err("InvalidGrfVersion")
    ELSE LET entries == ReadFileTable(f, f.ver)
         IN  IF ~entries.ok THEN Err(entries.err)
             ELSE Ok(Grf(f.ver, entries.val, EmptyMap))

\* Grf::detect_version on the file f: the magic is compared, then the u32
\* at offset 42 is returned as it is read.
DetectVersion(f) ==
    IF f.st = "absent" \/ ~f.hdr THEN Err("io")
    ELSE IF ~f.magic THEN Err("InvalidGrfHeader")
    ELSE Ok(f.ver)

\* Grf::get_entry and Grf::list_files.
HasEntry(g, filename) == filename \in DOMAIN g.entries

ListFiles(g) == DOMAIN g.entries

\* Grf::extract_file of handle g, whose path holds the file f.
ExtractFile(g, f, filename) ==
    IF ~HasEntry(g, filename) THEN Err("FileNotFound")
    ELSE IF f.st = "absent" THEN Err("io")
    ELSE LET entry == g.entries[filename]
             compressed_data ==
                 FileRead(f, entry.offset, entry.compressed_size_aligned)
         IN  IF ~compressed_data.ok THEN Err("io")
             ELSE IF entry.flags % 2 = 1
                  THEN LET decompressed == Inflate(compressed_data.val)
                       IN  IF decompressed.ok THEN decompressed
                           ELSE Err("decompression")
                  ELSE Ok(compressed_data.val)

(***************************************************************************)
(* Grf::patch_file and the pieces of Grf::save.                            *)
(***************************************************************************)
\* A faulty patch_file: a filename that is already staged keeps its bytes.
PatchFile_KeepFirst(g, filename, data) ==
    IF filename \in DOMAIN g.pending_patches THEN g
    ELSE [g EXCEPT !.pending_patches = Put(g.pending_patches, filename, data)]

\* patch_file: pending_patches.insert(filename, data).
PatchFile(g, filename, data) ==
    [g EXCEPT !.pending_patches = Put(g.pending_patches, filename, data)]

\* A faulty version check: save accepts every version.
SaveSupported_Any(g) == TRUE

\* save is refused unless the version is 0x200 or 0x300.
SaveSupported(g) ==
    g.version = GRF_VERSION_0X200 \/ g.version = GRF_VERSION_0X300

\* A faulty test of the staged files: save never takes the early return.
NoPending_Never(g) == FALSE

\* self.pending_patches.is_empty()
NoPending(g) == DOMAIN g.pending_patches = {}

\* A faulty first step: the file is removed instead of renamed.
RenameFile_Remove(d) == [path |-> NoFile, bak |-> d.bak]

\* self.file_path.with_extension("grf.bak"), std::fs::rename: the file moves
\* to the backup path and replaces what was there.
RenameFile(d) == [path |-> NoFile, bak |-> d.path]

\* A faulty rounding: (compressed_size + 8) & !7.
AlignUp_Plus8(n) == ((n + 8) \div 8) * 8

\* (compressed_size + 7) & !7
AlignUp(n) == ((n + 7) \div 8) * 8

\* A faulty choice of the payload: a stream as long as the file is used.
Payload_NotStrict(data) ==
    IF BLen(data) > COMPRESS_THRESHOLD
    THEN LET compressed_data == Deflate(data) IN
         IF BLen(compressed_data) <= BLen(data)
         THEN [data |-> compressed_data, flags |-> 1]
         ELSE [data |-> data, flags |-> 0]
    ELSE [data |-> data, flags |-> 0]

\* The payload of a staged file and its flags: deflated when the file is
\* longer than 1024 bytes and the stream is shorter than the file, else raw.
Payload(data) ==
    IF BLen(data) > COMPRESS_THRESHOLD
    THEN LET compressed_data == Deflate(data) IN
         IF BLen(compressed_data) < BLen(data)
         THEN [data |-> compressed_data, flags |-> 1]
         ELSE [data |-> data, flags |-> 0]
    ELSE [data |-> data, flags |-> 0]

\* The entries the copy loop of save has still to copy (those not staged),
\* and the staged files the second loop has still to write; ne is
\* new_entries.  A HashMap iterates in an order the program does not
\* choose: each step takes any of the remaining names.
CopyTodo(g, ne) ==
    {f \in DOMAIN g.entries : f \notin DOMAIN g.pending_patches /\ f \notin DOMAIN ne}

PatchTodo(g, ne) == {f \in DOMAIN g.pending_patches : f \notin DOMAIN ne}

\* The iteration orders of new_entries.values().
Orders(S) ==
    {o \in [1..Cardinality(S) -> S] : \A i, j \in 1..Cardinality(S) : o[i] = o[j] => i = j}

\* A faulty count: self.entries.len() in place of new_entries.len().
FilesCount_Old(g, ne) == Cardinality(DOMAIN g.entries)

\* new_entries.len() as u32, written at offset 38.
FilesCount(g, ne) == Cardinality(DOMAIN ne)

\* TableSizeCompressed, TableSize and the compressed table, as save writes
\* them at the end of the bodies.
TableBytes(recs) ==
    LET table_data == TableData(recs)
        compressed_table == Deflate(table_data)
    IN  Cat(Cat(U32LE(BLen(compressed_table)), U32LE(BLen(table_data))),
            compressed_table)

(***************************************************************************)
(* The contents and filenames of the model, and the containers found on    *)
(* disk at the start.                                                      *)
(***************************************************************************)
\* b"hello": 5 bytes, stored raw with 3 bytes of padding.
Hello == Norm(Fill(104, 1) \o Fill(101, 1) \o Fill(108, 2) \o Fill(111, 1))

\* 8 bytes, stored raw without padding.
Eight == Fill(66, 8)

\* 2 KiB of "A": stored deflated.
BigA == Fill(65, 2048)

Datas == {Hello, Eight, BigA}

\* "", "a" and "b".
Names == {<< >>, << 97 >>, << 98 >>}

\* A 0x200 container as a conforming writer leaves it, holding "a" (raw,
\* padded) and "b" (deflated, padded).
PreEntries ==
    << GrfEntry(<< 97 >>, 5, 8, 5, 0, 0),
       GrfEntry(<< 98 >>, ZLen(BigA), AlignUp(ZLen(BigA)), 2048, 1, 8) >>

PreImage ==
    [st |-> "complete", hdr |-> TRUE, magic |-> TRUE,
     toff |-> 8 + AlignUp(ZLen(BigA)), seed |-> 0, count |-> 2,
     ver |-> GRF_VERSION_0X200,
     body |-> Cat(Cat(Cat(Hello, Fill(0, 3)),
                      Cat(Deflate(BigA), Fill(0, AlignUp(ZLen(BigA)) - ZLen(BigA)))),
                  TableBytes(PreEntries))]

\* A 0x101 container that holds no file.
LegacyImage ==
    [WithHeader(CreatedFile, GRF_VERSION_0X101) EXCEPT !.st = "complete"]

\* 0x102 and 0x103 containers that hold no file.
LegacyImage102 ==
    [WithHeader(CreatedFile, GRF_VERSION_0X102) EXCEPT !.st = "complete"]

LegacyImage103 ==
    [WithHeader(CreatedFile, GRF_VERSION_0X103) EXCEPT !.st = "complete"]

\* A 0x300 container as read_file_table reads it: the version field at 42 is
\* also the table offset, the two table sizes are the first eight bytes
\* after the header, and the compressed table lies 0x300 bytes after the
\* header.  It holds "a" (raw, padded) at offset 8.
Entries300 == << GrfEntry(<< 97 >>, 5, 8, 5, 0, 8) >>

Image300 ==
    [st |-> "complete", hdr |-> TRUE, magic |-> TRUE, toff |-> 0, seed |-> 0,
     count |-> 1, ver |-> GRF_VERSION_0X300,
     body |-> Cat(Cat(Cat(U32LE(BLen(TableData(Entries300))),
                          U32LE(BLen(Deflate(TableData(Entries300))))),
                      Cat(Cat(Hello, Fill(0, 3)), Fill(0, GRF_VERSION_0X300 - 16))),
                  Deflate(TableData(Entries300)))]

InitImages ==
    {NoFile, PreImage, LegacyImage, LegacyImage102, LegacyImage103, Image300}

\* Bounds of the exploration: the calls of patch_file, save and open, and
\* the filesystem steps that fail.
MaxStage == 2

MaxCommit == 2

MaxOpen == 2

MaxFail == 1

(***************************************************************************)
(* State.                                                                  *)
(*   disk     the file at the container path and the file at `.grf.bak`    *)
(*   live     whether the caller holds a handle; grf is the handle         *)
(*   pc, loc  the position of a running save and its locals                *)
(*            (current_offset, new_entries, table_offset)                  *)
(*   last     the call that returned last, its arguments and its result;   *)
(*            wrote: whether it made a step that changes the filesystem    *)
(* History, read by the properties only:                                   *)
(*   created    the container was made by create_new in this run           *)
(*   phase      "committed" after a save that rebuilt the file, "reopened" *)
(*              or "reopen_failed" after the open that follows it          *)
(*   before     extract_file of every entry when the last rebuild began    *)
(*   stagedSet  the filenames staged when the last rebuild began           *)
(*   expect     the bytes last staged and committed for each filename      *)
(*   good       the last intact container image: the one found or created, *)
(*              then each finished rebuild of an intact one                *)
(*   nstage, ncommit, nopen, nfail   calls and failures so far             *)
(***************************************************************************)
VARIABLES disk, live, grf, pc, loc, last, created, phase, before, stagedSet,
          expect, good, nstage, ncommit, nopen, nfail

(***************************************************************************)
(* State of the patch archives and of the orchestrator.                    *)
(*   pfile    the patch archive on disk: its path and its content          *)
(*   beam     the BeamArchive handle                                       *)
(*   job      the position and the locals of a running Patcher::apply_patch*)
(*   ret      the archive call that returned last, and its result          *)
(*   log      history, read by the properties only                         *)
(***************************************************************************)
VARIABLES pfile, beam, job, ret, log

pvars == << pfile, beam, job, ret, log >>

vars ==
    << disk, live, grf, pc, loc, last, created, phase, before, stagedSet,
       expect, good, nstage, ncommit, nopen, nfail, pfile, beam, job, ret, log >>

hist == << created, phase, before, stagedSet, expect, good >>

counters == << nstage, ncommit, nopen, nfail >>

NoLoc == [current_offset |-> 0, new_entries |-> EmptyMap, table_offset |-> 0]

Ret(op, res, wrote) == [op |-> op, res |-> res, wrote |-> wrote, arg |-> << >>]

Init ==
    /\ \E f \in InitImages : disk = [path |-> f, bak |-> NoFile] /\ good = f
    /\ live = FALSE
    /\ grf = NoGrf
    /\ pc = "idle"
    /\ loc = NoLoc
    /\ last = Ret("none", "ok", FALSE)
    /\ created = FALSE
    /\ phase = "none"
    /\ before = EmptyMap
    /\ stagedSet = {}
    /\ expect = EmptyMap
    /\ nstage = 0
    /\ ncommit = 0
    /\ nopen = 0
    /\ nfail = 0
    /\ pfile = << >>
    /\ beam = << >>
    /\ job = << >>
    /\ ret = << >>
    /\ log = << >>

\* Grf::create_new, called as Patcher::open_or_create_grf calls it: when no
\* file is at the path.
CreateNew ==
    /\ pc = "idle"
    /\ disk.path.st = "absent"
    /\ disk' = [disk EXCEPT !.path =
                   [WithHeader(CreatedFile, GRF_VERSION_0X200) EXCEPT !.st = "complete"]]
    /\ live' = TRUE
    /\ grf' = Grf(GRF_VERSION_0X200, EmptyMap, EmptyMap)
    /\ last' = Ret("create_new", "ok", TRUE)
    /\ created' = (good.st = "absent")
    /\ good' = IF good.st = "absent" THEN disk'.path ELSE good
    /\ phase' = "none"
    /\ UNCHANGED << pc, loc, before, stagedSet, expect, counters >>
    /\ UNCHANGED pvars

\* Grf::open of the container path; the handle held before is dropped.
Open ==
    /\ pc = "idle"
    /\ nopen < MaxOpen
    /\ nopen' = nopen + 1
    /\ LET r == OpenGrf(disk.path) IN
       /\ live' = r.ok
       /\ grf' = IF r.ok THEN r.val ELSE NoGrf
       /\ last' = Ret("open", IF r.ok THEN "ok" ELSE r.err, FALSE)
       /\ phase' = IF phase = "committed"
                   THEN (IF r.ok THEN "reopened" ELSE "reopen_failed")
                   ELSE "none"
    /\ UNCHANGED << disk, pc, loc, created, before, stagedSet, expect, good,
                    nstage, ncommit, nfail >>
    /\ UNCHANGED pvars

\* Grf::patch_file(filename, data).
Stage(filename, data) ==
    /\ pc = "idle"
    /\ live
    /\ nstage < MaxStage
    /\ nstage' = nstage + 1
    /\ grf' = PatchFile(grf, filename, data)
    /\ last' = [Ret("stage", "ok", FALSE) EXCEPT !.arg = << filename, data >>]
    /\ UNCHANGED << disk, live, pc, loc, hist, ncommit, nopen, nfail >>
    /\ UNCHANGED pvars

\* Grf::save on a version it does not write.
SaveUnsupported ==
    /\ pc = "idle"
    /\ live
    /\ ncommit < MaxCommit
    /\ ~SaveSupported(grf)
    /\ ncommit' = ncommit + 1
    /\ last' = Ret("commit", "Unsupported", FALSE)
    /\ UNCHANGED << disk, live, grf, pc, loc, hist, nstage, nopen, nfail >>
    /\ UNCHANGED pvars

\* Grf::save with nothing staged.
SaveNoPending ==
    /\ pc = "idle"
    /\ live
    /\ ncommit < MaxCommit
    /\ SaveSupported(grf)
    /\ NoPending(grf)
    /\ ncommit' = ncommit + 1
    /\ last' = Ret("commit", "ok", FALSE)
    /\ UNCHANGED << disk, live, grf, pc, loc, hist, nstage, nopen, nfail >>
    /\ UNCHANGED pvars

\* Grf::save, first step: the rename to the backup path.  It fails when no
\* file is at the path, and may fail as any filesystem step may.
SaveRename ==
    /\ pc = "idle"
    /\ live
    /\ ncommit < MaxCommit
    /\ SaveSupported(grf)
    /\ ~NoPending(grf)
    /\ disk.path.st # "absent"
    /\ ncommit' = ncommit + 1
    /\ disk' = RenameFile(disk)
    /\ pc' = "renamed"
    /\ loc' = NoLoc
    /\ phase' = "none"
    /\ before' = [f \in DOMAIN grf.entries |-> ExtractFile(grf, disk.path, f)]
    /\ stagedSet' = DOMAIN grf.pending_patches
    /\ UNCHANGED << live, grf, last, created, expect, good, nstage, nopen, nfail >>
    /\ UNCHANGED pvars

SaveRenameFails ==
    /\ pc = "idle"
    /\ live
    /\ ncommit < MaxCommit
    /\ SaveSupported(grf)
    /\ ~NoPending(grf)
    /\ disk.path.st = "absent" \/ nfail < MaxFail
    /\ ncommit' = ncommit + 1
    /\ nfail' = IF disk.path.st = "absent" THEN nfail ELSE nfail + 1
    /\ last' = Ret("commit", "io", FALSE)
    /\ phase' = "none"
    /\ UNCHANGED << disk, live, grf, pc, loc, created, before, stagedSet,
                    expect, good, nstage, nopen >>
    /\ UNCHANGED pvars

\* File::create(&self.file_path).
SaveCreate ==
    /\ pc = "renamed"
    /\ disk' = [disk EXCEPT !.path = CreatedFile]
    /\ pc' = "created"
    /\ UNCHANGED << live, grf, loc, last, hist, counters >>
    /\ UNCHANGED pvars

\* The header writes, with zero for FileTableOffset and FilesCount, and the
\* opening of the backup for reading.
SaveHeader ==
    /\ pc = "created"
    /\ disk' = [disk EXCEPT !.path = WithHeader(disk.path, grf.version)]
    /\ pc' = "body"
    /\ UNCHANGED << live, grf, loc, last, hist, counters >>
    /\ UNCHANGED pvars

\* One round of the copy loop: the body of an entry that is not staged is
\* read from the backup and appended to the new file.
SaveCopy(filename) ==
    /\ pc = "body"
    /\ filename \in CopyTodo(grf, loc.new_entries)
    /\ LET entry == grf.entries[filename]
           file_data == FileRead(disk.bak, entry.offset, entry.compressed_size_aligned)
       IN  /\ file_data.ok
           /\ disk' = [disk EXCEPT !.path.body = Cat(disk.path.body, file_data.val)]
           /\ loc' = [loc EXCEPT
                  !.new_entries = Put(loc.new_entries, filename,
                      GrfEntry(filename, entry.compressed_size,
                               entry.compressed_size_aligned,
                               entry.uncompressed_size, entry.flags,
                               loc.current_offset)),
                  !.current_offset = loc.current_offset + entry.compressed_size_aligned]
    /\ UNCHANGED << live, grf, pc, last, hist, counters >>
    /\ UNCHANGED pvars

\* The read of the copy loop runs past the end of the backup: save returns
\* the error.
SaveCopyFails(filename) ==
    /\ pc = "body"
    /\ filename \in CopyTodo(grf, loc.new_entries)
    /\ LET entry == grf.entries[filename] IN
       ~FileRead(disk.bak, entry.offset, entry.compressed_size_aligned).ok
    /\ pc' = "idle"
    /\ loc' = NoLoc
    /\ last' = Ret("commit", "io", TRUE)
    /\ UNCHANGED << disk, live, grf, hist, counters >>
    /\ UNCHANGED pvars

\* One round of the second loop: a staged file is written, deflated or raw,
\* and padded with zeros to a multiple of 8 bytes.
SavePatched(filename) ==
    /\ pc = "body"
    /\ CopyTodo(grf, loc.new_entries) = {}
    /\ filename \in PatchTodo(grf, loc.new_entries)
    /\ LET data == grf.pending_patches[filename]
           actual == Payload(data)
           compressed_size == BLen(actual.data)
           compressed_size_aligned == AlignUp(compressed_size)
       IN  /\ disk' = [disk EXCEPT !.path.body =
                          Cat(Cat(disk.path.body, actual.data),
                              Fill(0, compressed_size_aligned - compressed_size))]
           /\ loc' = [loc EXCEPT
                  !.new_entries = Put(loc.new_entries, filename,
                      GrfEntry(filename, compressed_size, compressed_size_aligned,
                               BLen(data), actual.flags, loc.current_offset)),
                  !.current_offset = loc.current_offset + compressed_size_aligned]
    /\ UNCHANGED << live, grf, pc, last, hist, counters >>
    /\ UNCHANGED pvars

\* The table: its two sizes and the deflated records, in the order the map
\* of new entries iterates.
SaveTable ==
    /\ pc = "body"
    /\ CopyTodo(grf, loc.new_entries) = {}
    /\ PatchTodo(grf, loc.new_entries) = {}
    /\ \E order \in Orders(DOMAIN loc.new_entries) :
          disk' = [disk EXCEPT !.path.body =
                      Cat(disk.path.body,
                          TableBytes([i \in DOMAIN order |-> loc.new_entries[order[i]]]))]
    /\ loc' = [loc EXCEPT !.table_offset = loc.current_offset]
    /\ pc' = "table"
    /\ UNCHANGED << live, grf, last, hist, counters >>
    /\ UNCHANGED pvars

\* Seek to 30 and write FileTableOffset, Seed and FilesCount; the files are
\* then closed.
SavePatchHeader ==
    /\ pc = "table"
    /\ disk' = [disk EXCEPT !.path.toff = loc.table_offset,
                            !.path.seed = 0,
                            !.path.count = FilesCount(grf, loc.new_entries),
                            !.path.st = "complete"]
    /\ pc' = "patched"
    /\ good' = IF disk.bak = good THEN disk'.path ELSE good
    /\ UNCHANGED << live, grf, loc, last, created, phase, before, stagedSet,
                    expect, counters >>
    /\ UNCHANGED pvars

\* The backup is removed, then the handle takes the new table and drops
\* the staged files.
SaveFinish ==
    /\ pc = "patched"
    /\ disk' = [disk EXCEPT !.bak = NoFile]
    /\ grf' = Grf(grf.version, loc.new_entries, EmptyMap)
    /\ pc' = "idle"
    /\ loc' = NoLoc
    /\ last' = Ret("commit", "ok", TRUE)
    /\ phase' = "committed"
    /\ expect' = [f \in DOMAIN expect \cup DOMAIN grf.pending_patches |->
                    IF f \in DOMAIN grf.pending_patches
                    THEN grf.pending_patches[f] ELSE expect[f]]
    /\ UNCHANGED << live, created, before, stagedSet, good, counters >>
    /\ UNCHANGED pvars

\* A faulty error path: the staged files are dropped when save fails.
SaveStepFails_DropsPending ==
    /\ pc # "idle"
    /\ nfail < MaxFail
    /\ nfail' = nfail + 1
    /\ pc' = "idle"
    /\ loc' = NoLoc
    /\ last' = Ret("commit", "io", TRUE)
    /\ grf' = [grf EXCEPT !.pending_patches = EmptyMap]
    /\ UNCHANGED << disk, live, hist, nstage, ncommit, nopen >>
    /\ UNCHANGED pvars

\* The filesystem step a running save makes next fails: save returns the
\* error, and does nothing more.
SaveStepFails ==
    /\ pc # "idle"
    /\ nfail < MaxFail
    /\ nfail' = nfail + 1
    /\ pc' = "idle"
    /\ loc' = NoLoc
    /\ last' = Ret("commit", "io", TRUE)
    /\ UNCHANGED << disk, live, grf, hist, nstage, ncommit, nopen >>
    /\ UNCHANGED pvars

Next ==
    \/ CreateNew
    \/ Open
    \/ \E filename \in Names, data \in Datas : Stage(filename, data)
    \/ SaveUnsupported
    \/ SaveNoPending
    \/ SaveRename
    \/ SaveRenameFails
    \/ SaveCreate
    \/ SaveHeader
    \/ \E filename \in Names : SaveCopy(filename)
    \/ \E filename \in Names : SaveCopyFails(filename)
    \/ \E filename \in Names : SavePatched(filename)
    \/ SaveTable
    \/ SavePatchHeader
    \/ SaveFinish
    \/ SaveStepFails

Spec == Init /\ [][Next]_vars

(***************************************************************************)
(* The read entry points on files of every header: detect_version and open *)
(* of a file whose magic or version field may be wrong.                    *)
(***************************************************************************)
\* Version fields outside the enumerated set: 0, 0x100, 0x201 and 0x999.
OtherVersions == {0, 256, 513, 2457}

\* A header-only file with the given magic and version field.
HeaderImage(magic_ok, version) ==
    [WithHeader(CreatedFile, version) EXCEPT !.st = "complete", !.magic = magic_ok]

HeaderImages ==
    {HeaderImage(m, v) : m \in BOOLEAN, v \in KnownVersions \cup OtherVersions}
        \cup {NoFile, CreatedFile, PreImage}

HeaderInit ==
    /\ \E f \in HeaderImages : disk = [path |-> f, bak |-> NoFile] /\ good = f
    /\ live = FALSE
    /\ grf = NoGrf
    /\ pc = "idle"
    /\ loc = NoLoc
    /\ last = Ret("none", "ok", FALSE)
    /\ created = FALSE
    /\ phase = "none"
    /\ before = EmptyMap
    /\ stagedSet = {}
    /\ expect = EmptyMap
    /\ nstage = 0
    /\ ncommit = 0
    /\ nopen = 0
    /\ nfail = 0
    /\ pfile = << >>
    /\ beam = << >>
    /\ job = << >>
    /\ ret = << >>
    /\ log = << >>

\* A call of Grf::detect_version on the container path; arg is the version
\* it returns.
DetectVersionCall ==
    /\ pc = "idle"
    /\ LET r == DetectVersion(disk.path) IN
       last' = [Ret("detect_version", IF r.ok THEN "ok" ELSE r.err, FALSE)
                   EXCEPT !.arg = IF r.ok THEN << r.val >> ELSE << >>]
    /\ UNCHANGED << disk, live, grf, pc, loc, hist, counters >>
    /\ UNCHANGED pvars

HeaderNext ==
    \/ DetectVersionCall
    \/ Open

SpecHeader == HeaderInit /\ [][HeaderNext]_vars

(***************************************************************************)
(* The BEAM codec (src/beam-formats/src/beam.rs).                          *)
(***************************************************************************)
BEAM_VERSION == 1

\* The fixed header of a BEAM file.
HEADER_SIZE == 64

\* md5::compute.  A digest is modelled by the bytes it was computed from
\* (no two byte strings of the model collide) and the set of its bits that
\* were flipped afterwards.
Md5(data) == [sum |-> data, flip |-> {}]

\* The digest h with bit i inverted.
FlipBit(h, i) ==
    [h EXCEPT !.flip = IF i \in h.flip THEN h.flip \ {i} ELSE h.flip \cup {i}]

BeamEntry(filename, md5_hash, csize, usize, offset) ==
    [filename |-> filename, md5_hash |-> md5_hash, compressed_size |-> csize,
     uncompressed_size |-> usize, offset |-> offset]

\* struct BeamArchive; file_path is whether it is Some (the model has one
\* archive path).
BeamArchive(version, entries, file_path, file_data) ==
    [version |-> version, entries |-> entries, file_path |-> file_path,
     file_data |-> file_data]

\* BeamArchive::new
NewBeam == BeamArchive(BEAM_VERSION, EmptyMap, FALSE, EmptyMap)

\* BeamArchive::add_file
AddFile(b, filename, data) ==
    [b EXCEPT
       !.file_data = Put(b.file_data, filename, data),
       !.entries = Put(b.entries, filename,
           BeamEntry(filename, Md5(data), BLen(Deflate(data)), BLen(data), 0))]

\* A BEAM file: the header fields, the entry records in the order they were
\* written, and the bytes after the records.
NoBeamFile ==
    [st |-> "absent", magic |-> FALSE, version |-> 0, count |-> 0,
     recs |-> << >>, bodies |-> << >>]

\* One entry record as save writes it: one length byte, the whole filename,
\* 16 bytes of MD5, two u32 and one u64.
BeamRecordLen(e) == 1 + Len(e.filename) + 16 + 4 + 4 + 8

RECURSIVE BeamTableLen(_)
BeamTableLen(recs) ==
    IF recs = << >> THEN 0
    ELSE BeamRecordLen(Head(recs)) + BeamTableLen(Tail(recs))

\* seek(offset) and read_exact of n bytes of a BEAM file.  Bytes of the
\* header and of the records are no zlib stream.
BeamFileRead(f, pos, n) ==
    LET start == HEADER_SIZE + BeamTableLen(f.recs) IN
    IF f.st = "absent" THEN Err("io")
    ELSE IF n = 0 THEN Ok(<< >>)
    ELSE IF n < 0 \/ pos < 0 \/ pos + n > start + BLen(f.bodies) THEN Err("io")
    ELSE IF pos < start THEN Ok(Noise(1, n))
    ELSE Ok(Slice(f.bodies, pos - start, n))

\* What the record loop of open reads where a filename of 256 bytes or more
\* was written: the length byte is filename.len() as u8, so the filename
\* read is the first len % 256 bytes and the five fields are read from the
\* bytes of the filename that follow.
TruncatedEntry(e) ==
    LET filename == SubSeq(e.filename, 1, Len(e.filename) % 256)
    IN  BeamEntry(filename, [sum |-> << >>, flip |-> {-1}], -1, -1, -1)

\* The record loop of open.  After a record whose filename was truncated the
\* reads are out of step with the records written: none of the later
\* records is read with its name and fields.
RECURSIVE ParseBeamRecords(_, _)
ParseBeamRecords(recs, acc) ==
    IF recs = << >> THEN acc
    ELSE LET e == Head(recs) IN
         IF Len(e.filename) > 255
         THEN Put(acc, TruncatedEntry(e).filename, TruncatedEntry(e))
         ELSE ParseBeamRecords(Tail(recs), Put(acc, e.filename, e))

\* BeamArchive::open
BeamOpen(f) ==
    IF f.st = "absent" THEN Err("io")
    ELSE IF ~f.magic THEN Err("InvalidBeamMagic")
    ELSE IF f.count > Len(f.recs) THEN Err("io")
    ELSE Ok(BeamArchive(f.version,
                        ParseBeamRecords(SubSeq(f.recs, 1, f.count), EmptyMap),
                        TRUE, EmptyMap))

\* A faulty extract_file: the digest is not compared.
BeamExtract_NoCheck(b, f, filename) ==
    IF filename \notin DOMAIN b.entries THEN Err("FileNotFound")
    ELSE IF ~b.file_path THEN Err("NotSaved")
    ELSE LET entry == b.entries[filename]
             compressed_data == BeamFileRead(f, entry.offset, entry.compressed_size)
         IN  IF ~compressed_data.ok THEN Err("io")
             ELSE LET decompressed == Inflate(compressed_data.val) IN
                  IF ~decompressed.ok THEN Err("decompression")
                  ELSE decompressed

\* BeamArchive::extract_file of the archive b, whose path holds the file f.
\* "ChecksumMismatch" is Error::Custom("MD5 checksum mismatch for file: ..").
BeamExtract(b, f, filename) ==
    IF filename \notin DOMAIN b.entries THEN Err("FileNotFound")
    ELSE IF ~b.file_path THEN Err("NotSaved")
    ELSE LET entry == b.entries[filename]
             compressed_data == BeamFileRead(f, entry.offset, entry.compressed_size)
         IN  IF ~compressed_data.ok THEN Err("io")
             ELSE LET decompressed == Inflate(compressed_data.val) IN
                  IF ~decompressed.ok THEN Err("decompression")
                  ELSE IF Md5(decompressed.val) # entry.md5_hash
                       THEN Err("ChecksumMismatch")
                       ELSE decompressed

\* BeamArchive::verify_file: extract_file(filename)?, then the comparison of
\* the digests.
BeamVerify(b, f, filename) ==
    LET data == BeamExtract(b, f, filename) IN
    IF ~data.ok THEN data
    ELSE Ok(Md5(data.val) = b.entries[filename].md5_hash)

BeamListFiles(b) == DOMAIN b.entries

\* save, after File::create and the four header writes.
BeamCreated(b) ==
    [st |-> "present", magic |-> TRUE, version |-> b.version,
     count |-> Cardinality(DOMAIN b.entries), recs |-> << >>, bodies |-> << >>]

\* save, the loop over entries.keys(): the bytes of one file, from file_data
\* or read back from the file at the archive's path, which save has just
\* created anew.
BeamSource(b, filename) ==
    IF filename \in DOMAIN b.file_data THEN Ok(b.file_data[filename])
    ELSE IF b.file_path THEN BeamExtract(b, BeamCreated(b), filename)
    ELSE Err("NoSourceData")

\* save, the loop over entries.iter_mut(): the records, each with the offset
\* current_offset, which then advances by the entry's compressed_size.
RECURSIVE BeamRecords(_, _, _)
BeamRecords(b, order, current_offset) ==
    IF order = << >> THEN << >>
    ELSE LET entry == b.entries[Head(order)] IN
         << [entry EXCEPT !.offset = current_offset] >>
            \o BeamRecords(b, Tail(order), current_offset + entry.compressed_size)

\* save, the loop over compressed_files: the deflated files back to back.
RECURSIVE BeamBodies(_, _)
BeamBodies(b, order) ==
    IF order = << >> THEN << >>
    ELSE Cat(Deflate(BeamSource(b, Head(order)).val), BeamBodies(b, Tail(order)))

\* BeamArchive::save to the archive path.  order is the order in which the
\* map of entries iterates; the map is not changed between the loops of
\* save, which therefore all see the same order.
BeamSave(b, order) ==
    LET failed == {i \in DOMAIN order : ~BeamSource(b, order[i]).ok}
        first == CHOOSE i \in failed : \A j \in failed : i <= j
        recs == BeamRecords(b, order, HEADER_SIZE + BeamTableLen(
                    [i \in DOMAIN order |-> b.entries[order[i]]]))
    IN  IF failed # {}
        THEN [res |-> Err(BeamSource(b, order[first]).err),
              file |-> BeamCreated(b), beam |-> b]
        ELSE [res |-> Ok(<< >>),
              file |-> [BeamCreated(b) EXCEPT !.recs = recs,
                                              !.bodies = BeamBodies(b, order)],
              beam |-> [b EXCEPT !.file_path = TRUE,
                                 !.entries = [x \in DOMAIN b.entries |->
                                     LET i == CHOOSE i \in DOMAIN recs :
                                                 recs[i].filename = x
                                     IN  recs[i]]]]

(***************************************************************************)
(* A session on one BEAM archive path: a new archive is filled and saved,  *)
(* the file is opened, read and verified; the stored digest of an entry    *)
(* may be damaged on disk in between.                                      *)
(***************************************************************************)
gvars ==
    << disk, live, grf, pc, loc, last, created, phase, before, stagedSet,
       expect, good, nstage, ncommit, nopen, nfail >>

\* A filename of 256 bytes.
LongName == [i \in 1..256 |-> 97]

\* "a", "b" and the long filename.
BeamNames == {<< 97 >>, << 98 >>, LongName}

\* The bits of a stored digest that the disk may flip: the first and the
\* last of its 128.
FlipBits == {0, 127}

\* Bounds of the session: the calls of add_file and the flipped bits.
MaxAdd == 2

MaxFlip == 1

\* The path of the archive: "p.beam".
BeamPath == << 112, 46, 98, 101, 97, 109 >>

NoRet == [op |-> "none", arg |-> << >>, res |-> Ok(<< >>)]

\* History of a session:
\*   origin    "new" for a handle made by new(), "opened" for one by open()
\*   sync      the entries of the handle are those of the records on disk
\*   stored    the files the last successful save wrote
\*   saved_by  the origin of the handle that made that save
\*   flipped   the bits of stored digests that were flipped since
BeamLog ==
    [nadd |-> 0, nflip |-> 0, origin |-> "new", sync |-> FALSE,
     stored |-> EmptyMap, saved_by |-> "none", flipped |-> {}]

BeamInit ==
    /\ disk = [path |-> NoFile, bak |-> NoFile]
    /\ good = NoFile
    /\ live = FALSE
    /\ grf = NoGrf
    /\ pc = "idle"
    /\ loc = NoLoc
    /\ last = Ret("none", "ok", FALSE)
    /\ created = FALSE
    /\ phase = "none"
    /\ before = EmptyMap
    /\ stagedSet = {}
    /\ expect = EmptyMap
    /\ nstage = 0
    /\ ncommit = 0
    /\ nopen = 0
    /\ nfail = 0
    /\ pfile = [path |-> BeamPath, data |-> NoBeamFile]
    /\ beam = NewBeam
    /\ job = << >>
    /\ ret = NoRet
    /\ log = BeamLog

BeamAddFile(filename, data) ==
    /\ log.nadd < MaxAdd
    /\ beam' = AddFile(beam, filename, data)
    /\ ret' = [op |-> "add_file", arg |-> << filename, data >>, res |-> Ok(<< >>)]
    /\ log' = [log EXCEPT !.nadd = log.nadd + 1, !.sync = FALSE]
    /\ UNCHANGED << pfile, job >>
    /\ UNCHANGED gvars

BeamSaveCall ==
    /\ \E order \in Orders(DOMAIN beam.entries) :
          LET r == BeamSave(beam, order) IN
          /\ pfile' = [pfile EXCEPT !.data = r.file]
          /\ beam' = r.beam
          /\ ret' = [op |-> "save", arg |-> << >>, res |-> r.res]
          /\ log' = IF r.res.ok
                    THEN [log EXCEPT !.sync = TRUE, !.stored = beam.file_data,
                                     !.saved_by = log.origin, !.flipped = {}]
                    ELSE [log EXCEPT !.sync = FALSE, !.stored = EmptyMap,
                                     !.saved_by = "none", !.flipped = {}]
    /\ UNCHANGED job
    /\ UNCHANGED gvars

\* BeamArchive::open of the archive path.  When it fails the caller keeps
\* the handle it had.
BeamOpenCall ==
    /\ LET r == BeamOpen(pfile.data) IN
       /\ beam' = IF r.ok THEN r.val ELSE beam
       /\ ret' = [op |-> "open", arg |-> << >>,
                  res |-> IF r.ok THEN Ok(<< >>) ELSE r]
       /\ log' = IF r.ok THEN [log EXCEPT !.origin = "opened", !.sync = TRUE]
                 ELSE log
    /\ UNCHANGED << pfile, job >>
    /\ UNCHANGED gvars

BeamExtractCall(filename) ==
    /\ ret' = [op |-> "extract_file", arg |-> << filename >>,
               res |-> BeamExtract(beam, pfile.data, filename)]
    /\ UNCHANGED << pfile, beam, job, log >>
    /\ UNCHANGED gvars

BeamVerifyCall(filename) ==
    /\ ret' = [op |-> "verify_file", arg |-> << filename >>,
               res |-> BeamVerify(beam, pfile.data, filename)]
    /\ UNCHANGED << pfile, beam, job, log >>
    /\ UNCHANGED gvars

\* The disk flips one bit of the digest stored in the i-th record.
BeamCorrupt(i, bit) ==
    /\ log.nflip < MaxFlip
    /\ i \in DOMAIN pfile.data.recs
    /\ pfile' = [pfile EXCEPT !.data.recs[i].md5_hash = FlipBit(@, bit)]
    /\ log' = [log EXCEPT
                 !.nflip = log.nflip + 1,
                 !.flipped = LET x == << pfile.data.recs[i].filename, bit >> IN
                             IF x \in @ THEN @ \ {x} ELSE @ \cup {x}]
    /\ UNCHANGED << beam, job, ret >>
    /\ UNCHANGED gvars

BeamNext ==
    \/ \E filename \in BeamNames, data \in Datas : BeamAddFile(filename, data)
    \/ BeamSaveCall
    \/ BeamOpenCall
    \/ \E filename \in BeamNames : BeamExtractCall(filename)
    \/ \E filename \in BeamNames : BeamVerifyCall(filename)
    \/ \E i \in 1..MaxAdd, bit \in FlipBits : BeamCorrupt(i, bit)

SpecBeam == BeamInit /\ [][BeamNext]_vars

(***************************************************************************)
(* The THOR and RGZ parsers (src/beam-formats/src/thor.rs, rgz.rs).  The   *)
(* decompressed body of an archive is a sequence of bytes; the cursor      *)
(* position pos counts from 1.                                             *)
(***************************************************************************)
\* u32::from_le_bytes of the four bytes at pos.  No body of the model has
\* 65536 bytes: every value with a non-zero third or fourth byte is read as
\* 65536, past the end of every body.
BodyU32(body, pos) ==
    IF body[pos + 2] = 0 /\ body[pos + 3] = 0
    THEN body[pos] + 256 * body[pos + 1]
    ELSE 65536

\* The bytes of a Vec<u8> as a byte string of the container model.
BytesOf(data) == Norm([i \in DOMAIN data |-> Chunk("fill", data[i], 0, 1)])

ThorAdd(filename, data) == [type |-> "Add", filename |-> filename, data |-> data]

ThorRemove(filename) == [type |-> "Remove", filename |-> filename, data |-> << >>]

\* The record loop of Thor::from_bytes from position pos on.
RECURSIVE ThorRecords(_, _, _)
ThorRecords(body, pos, entries) ==
    IF pos > Len(body) THEN Ok(entries)
    ELSE LET mode == body[pos] IN
         IF pos + 1 > Len(body) THEN Err("io")
         ELSE LET filename_len == body[pos + 1]
                  at == pos + 2 + filename_len
              IN  IF at - 1 > Len(body) THEN Err("io")
                  ELSE LET filename == SubSeq(body, pos + 2, at - 1) IN
                       IF mode = 1
                       THEN IF at + 3 > Len(body) THEN Err("io")
                            ELSE LET size == BodyU32(body, at) IN
                                 IF at + 3 + size > Len(body) THEN Err("io")
                                 ELSE ThorRecords(body, at + 4 + size,
                                          Append(entries,
                                              ThorAdd(filename,
                                                  SubSeq(body, at + 4, at + 3 + size))))
                       ELSE IF mode = 2
                       THEN ThorRecords(body, at, Append(entries, ThorRemove(filename)))
                       ELSE ThorRecords(body, at, entries)

\* A THOR file: whether it has 28 bytes and whether they are the magic,
\* whether the rest is a gzip stream, and the bytes that stream inflates to.
ThorFile(head, gz, body) == [head |-> head, gz |-> gz, body |-> body]

\* Thor::from_bytes
ThorFromBytes(f) ==
    IF f.head = "short" THEN Err("InvalidThorHeader")
    ELSE IF f.head # "magic" THEN Err("InvalidThorHeader")
    ELSE IF ~f.gz THEN Err("decompression")
    ELSE ThorRecords(f.body, 1, << >>)

RgzFileEntry(name, data) == [type |-> "File", name |-> name, data |-> data]

RgzDirectory(name) == [type |-> "Directory", name |-> name, data |-> << >>]

\* A faulty record loop: a tag that is none of 'f', 'd', 'e' is skipped.
RECURSIVE RgzRecords_SkipUnknown(_, _, _)
RgzRecords_SkipUnknown(body, pos, entries) ==
    IF pos > Len(body) THEN Ok(entries)
    ELSE LET entry_type == body[pos] IN
         IF entry_type = 102 \/ entry_type = 100
         THEN IF pos + 1 > Len(body) THEN Err("io")
              ELSE LET name_len == body[pos + 1]
                       at == pos + 2 + name_len
                   IN  IF at - 1 > Len(body) THEN Err("io")
                       ELSE LET name == SubSeq(body, pos + 2, at - 1) IN
                            IF entry_type = 100
                            THEN RgzRecords_SkipUnknown(body, at,
                                     Append(entries, RgzDirectory(name)))
                            ELSE IF at + 3 > Len(body) THEN Err("io")
                            ELSE LET size == BodyU32(body, at) IN
                                 IF at + 3 + size > Len(body) THEN Err("io")
                                 ELSE RgzRecords_SkipUnknown(body, at + 4 + size,
                                          Append(entries,
                                              RgzFileEntry(name,
                                                  SubSeq(body, at + 4, at + 3 + size))))
         ELSE IF entry_type = 101 THEN Ok(entries)
         ELSE RgzRecords_SkipUnknown(body, pos + 1, entries)

\* The record loop of Rgz::from_bytes from position pos on: 'f' is 102, 'd'
\* is 100, 'e' is 101.  The loop also ends where the body ends.
RECURSIVE RgzRecords(_, _, _)
RgzRecords(body, pos, entries) ==
    IF pos > Len(body) THEN Ok(entries)
    ELSE LET entry_type == body[pos] IN
         IF entry_type = 102 \/ entry_type = 100
         THEN IF pos + 1 > Len(body) THEN Err("io")
              ELSE LET name_len == body[pos + 1]
                       at == pos + 2 + name_len
                   IN  IF at - 1 > Len(body) THEN Err("io")
                       ELSE LET name == SubSeq(body, pos + 2, at - 1) IN
                            IF entry_type = 100
                            THEN RgzRecords(body, at, Append(entries, RgzDirectory(name)))
                            ELSE IF at + 3 > Len(body) THEN Err("io")
                            ELSE LET size == BodyU32(body, at) IN
                                 IF at + 3 + size > Len(body) THEN Err("io")
                                 ELSE RgzRecords(body, at + 4 + size,
                                          Append(entries,
                                              RgzFileEntry(name,
                                                  SubSeq(body, at + 4, at + 3 + size))))
         ELSE IF entry_type = 101 THEN Ok(entries)
         ELSE Err("InvalidRgzFormat")

\* An RGZ file: whether it is a gzip stream, and the bytes it inflates to.
RgzFile(gz, body) == [gz |-> gz, body |-> body]

\* Rgz::from_bytes
RgzFromBytes(f) ==
    IF ~f.gz THEN Err("decompression")
    ELSE RgzRecords(f.body, 1, << >>)

(***************************************************************************)
(* Patcher::apply_patch (src/beam-core/src/patcher.rs): one patch archive  *)
(* is applied to the container path.  pfile is the patch archive on disk,  *)
(* beam the handle on it, job the position of apply_patch.  The calls of   *)
(* Grf::open, create_new, patch_file and save are the actions of the       *)
(* container above, enabled while apply_patch is inside the call.          *)
(***************************************************************************)
\* A path is the sequence of its bytes: "/" is 47, "." is 46.
LastIndexOf(str, c) ==
    LET at == {i \in DOMAIN str : str[i] = c} IN
    IF at = {} THEN 0 ELSE CHOOSE i \in at : \A j \in at : j <= i

\* Path::file_name: what follows the last separator.
FileName(path) == SubSeq(path, LastIndexOf(path, 47) + 1, Len(path))

\* Path::extension, and_then(to_str), unwrap_or(""): what follows the last
\* dot of the file name; nothing when the file name has no dot, or none but
\* a leading one.
Extension(path) ==
    LET file_name == FileName(path)
        dot == LastIndexOf(file_name, 46)
    IN  IF dot <= 1 THEN << >>
        ELSE SubSeq(file_name, dot + 1, Len(file_name))

\* A faulty to_lowercase: the string is left as it is.
ToLower_Same(str) == str

\* str::to_lowercase on the ASCII letters, the letters of the model.
ToLower(str) ==
    [i \in DOMAIN str |-> IF str[i] >= 65 /\ str[i] <= 90 THEN str[i] + 32 ELSE str[i]]

\* "beam", "thor", "rgz" and "gpf".
ExtBeam == << 98, 101, 97, 109 >>

ExtThor == << 116, 104, 111, 114 >>

ExtRgz == << 114, 103, 122 >>

ExtGpf == << 103, 112, 102 >>

\* The match of apply_patch on the lower-cased extension.
PatchFormat(path) ==
    LET extension == ToLower(Extension(path)) IN
    IF extension = ExtBeam THEN "beam"
    ELSE IF extension = ExtThor THEN "thor"
    ELSE IF extension = ExtRgz THEN "rgz"
    ELSE IF extension = ExtGpf THEN "gpf"
    ELSE "unknown"

\* "x", "y" and "z".
NameX == << 120 >>

NameY == << 121 >>

NameZ == << 122 >>

PatchNames == Names \cup {NameX, NameY, NameZ}

\* A 0x200 container holding x: b"0", y: b"2" and z: b"3", each stored raw
\* with 7 bytes of padding.
TriEntries ==
    << GrfEntry(NameX, 1, 8, 1, 0, 0),
       GrfEntry(NameY, 1, 8, 1, 0, 8),
       GrfEntry(NameZ, 1, 8, 1, 0, 16) >>

TriImage ==
    [st |-> "complete", hdr |-> TRUE, magic |-> TRUE, toff |-> 24, seed |-> 0,
     count |-> 3, ver |-> GRF_VERSION_0X200,
     body |-> Cat(Cat(Cat(Cat(Fill(48, 1), Fill(0, 7)),
                          Cat(Fill(50, 1), Fill(0, 7))),
                      Cat(Fill(51, 1), Fill(0, 7))),
                  TableBytes(TriEntries))]

\* A 0x200 container cut short: its table names "z" at an offset past the
\* end of the file.
TornEntries == << GrfEntry(NameZ, 1, 8, 1, 0, 4096) >>

TornImage ==
    [st |-> "complete", hdr |-> TRUE, magic |-> TRUE, toff |-> 0, seed |-> 0,
     count |-> 1, ver |-> GRF_VERSION_0X200, body |-> TableBytes(TornEntries)]

\* A 0x200 container holding "a" with flags 0x02: 8 bytes of ciphertext.
CipherEntries == << GrfEntry(<< 97 >>, 8, 8, 8, 2, 0) >>

CipherImage ==
    [st |-> "complete", hdr |-> TRUE, magic |-> TRUE, toff |-> 8, seed |-> 0,
     count |-> 1, ver |-> GRF_VERSION_0X200,
     body |-> Cat(Noise(2, 8), TableBytes(CipherEntries))]

\* The containers found at the target path: none, the five above, and a
\* file that is no container.
TargetImages ==
    {NoFile, PreImage, TriImage, TornImage, CipherImage, LegacyImage,
     HeaderImage(FALSE, GRF_VERSION_0X200)}

\* A BEAM archive of "a" and "b" as save writes it; bad is the set of names
\* whose stored digest has one bit flipped.
BeamPatch(bad) ==
    LET b == AddFile(AddFile(NewBeam, << 97 >>, Hello), << 98 >>, BigA)
        f == BeamSave(b, << << 97 >>, << 98 >> >>).file
    IN  [f EXCEPT !.recs = [i \in DOMAIN f.recs |->
            IF f.recs[i].filename \in bad
            THEN [f.recs[i] EXCEPT !.md5_hash = FlipBit(f.recs[i].md5_hash, 0)]
            ELSE f.recs[i]]]

BeamPatches ==
    {BeamPatch({}), BeamPatch({<< 97 >>}), BeamPatch({<< 98 >>}),
     [BeamPatch({}) EXCEPT !.magic = FALSE]}

\* THOR bodies: Add("x", b"1") and Remove("y"); Remove("y") alone; a record
\* of mode 3 before an Add; "x" added twice; an Add cut short.
ThorBodies ==
    {<< 1, 1, 120, 1, 0, 0, 0, 49, 2, 1, 121 >>,
     << 2, 1, 121 >>,
     << 3, 1, 122, 1, 1, 120, 1, 0, 0, 0, 49 >>,
     << 1, 1, 120, 1, 0, 0, 0, 48, 1, 1, 120, 1, 0, 0, 0, 49 >>,
     << 1, 1, 120, 1, 0 >>}

ThorPatches ==
    {ThorFile("magic", TRUE, body) : body \in ThorBodies}
        \cup {ThorFile("other", TRUE, << 2, 1, 121 >>)}

\* RGZ files: File("a", b"1"), Directory("d") and the end tag; File("a",
\* b"0"), File("a", b"1") and the end tag; a tag 'x'; no gzip stream.
RgzPatches ==
    {RgzFile(TRUE, << 102, 1, 97, 1, 0, 0, 0, 49, 100, 1, 100, 101 >>),
     RgzFile(TRUE, << 102, 1, 97, 1, 0, 0, 0, 48, 102, 1, 97, 1, 0, 0, 0, 49, 101 >>),
     RgzFile(TRUE, << 100, 1, 100, 120 >>),
     RgzFile(FALSE, << >>)}

\* GPF files are containers.
GpfPatches == {PreImage, HeaderImage(FALSE, GRF_VERSION_0X200)}

\* "p." followed by an extension.
PathOf(extension) == << 112, 46 >> \o extension

\* The patch archives applied: the path, the format the name stands for,
\* and the file.  The last group are names of no patch format: "p.txt",
\* "p", ".beam", "p.beam.bak" and "d.beam/p".
PatchInputs ==
    {[path |-> PathOf(e), fmt |-> "beam", data |-> d] :
        e \in {ExtBeam, << 66, 69, 65, 77 >>, << 66, 101, 97, 109 >>},
        d \in BeamPatches}
    \cup {[path |-> PathOf(e), fmt |-> "thor", data |-> d] :
        e \in {ExtThor, << 84, 72, 79, 82 >>}, d \in ThorPatches}
    \cup {[path |-> PathOf(e), fmt |-> "rgz", data |-> d] :
        e \in {ExtRgz, << 82, 103, 122 >>}, d \in RgzPatches}
    \cup {[path |-> PathOf(e), fmt |-> "gpf", data |-> d] :
        e \in {ExtGpf, << 71, 80, 70 >>}, d \in GpfPatches}
    \cup {[path |-> q, fmt |-> "unknown", data |-> BeamPatch({})] :
        q \in {PathOf(<< 116, 120, 116 >>), << 112 >>, << 46 >> \o ExtBeam,
               PathOf(ExtBeam) \o << 46, 98, 97, 107 >>,
               << 100, 46 >> \o ExtBeam \o << 47, 112 >>}}

\* apply_patch at its first line.
NewJob ==
    [pc |-> "classify", kind |-> "none", items |-> << >>, idx |-> 1,
     cur |-> << >>, stages |-> 0, res |-> Ok(<< >>)]

\* History of one apply_patch: the disk before the call, the format the
\* name of the patch stands for, and the filenames verify_file accepted.
PatchLog(d, fmt) == [disk0 |-> d, fmt |-> fmt, verified |-> {}]

PatchInit ==
    /\ \E f \in TargetImages, p \in PatchInputs :
          /\ disk = [path |-> f, bak |-> NoFile]
          /\ good = f
          /\ pfile = [path |-> p.path, data |-> p.data]
          /\ log = PatchLog(disk, p.fmt)
    /\ live = FALSE
    /\ grf = NoGrf
    /\ pc = "idle"
    /\ loc = NoLoc
    /\ last = Ret("none", "ok", FALSE)
    /\ created = FALSE
    /\ phase = "none"
    /\ before = EmptyMap
    /\ stagedSet = {}
    /\ expect = EmptyMap
    /\ nstage = 0
    /\ ncommit = 0
    /\ nopen = 0
    /\ nfail = 0
    /\ beam = NewBeam
    /\ job = NewJob
    /\ ret = NoRet

\* apply_patch returns.
Return(res) == [job EXCEPT !.pc = "done", !.res = res]

\* The match on the extension; the last arm returns PatchFailed("Unknown
\* patch format: ..").
PatchClassify ==
    /\ job.pc = "classify"
    /\ LET kind == PatchFormat(pfile.path) IN
       job' = IF kind = "unknown" THEN Return(Err("UnknownPatchFormat"))
              ELSE [job EXCEPT !.pc = "parse", !.kind = kind]
    /\ UNCHANGED << pfile, beam, ret, log >>
    /\ UNCHANGED gvars

\* The items an opened archive yields, in the order the loop of its handler
\* visits them: list_files() of a BEAM or GPF archive iterates a map.
FileItems(order) ==
    [i \in DOMAIN order |-> [type |-> "Entry", filename |-> order[i], data |-> << >>]]

\* BeamArchive::open, Thor::open, Rgz::open or Gpf::open of the patch path.
PatchParse ==
    /\ job.pc = "parse"
    /\ \/ /\ job.kind = "beam"
          /\ LET r == BeamOpen(pfile.data) IN
             IF r.ok
             THEN /\ beam' = r.val
                  /\ \E order \in Orders(BeamListFiles(r.val)) :
                        job' = [job EXCEPT !.pc = "open_grf", !.items = FileItems(order)]
             ELSE /\ beam' = beam
                  /\ job' = Return(r)
       \/ /\ job.kind = "gpf"
          /\ LET r == OpenGrf(pfile.data) IN
             IF r.ok
             THEN /\ beam' = r.val
                  /\ \E order \in Orders(ListFiles(r.val)) :
                        job' = [job EXCEPT !.pc = "open_grf", !.items = FileItems(order)]
             ELSE /\ beam' = beam
                  /\ job' = Return(r)
       \/ /\ job.kind = "thor"
          /\ LET r == ThorFromBytes(pfile.data) IN
             job' = IF r.ok THEN [job EXCEPT !.pc = "open_grf", !.items = r.val]
                    ELSE Return(r)
          /\ beam' = beam
       \/ /\ job.kind = "rgz"
          /\ LET r == RgzFromBytes(pfile.data) IN
             job' = IF r.ok
                    THEN [job EXCEPT !.pc = "open_grf", !.items =
                             [i \in DOMAIN r.val |->
                                 [type |-> r.val[i].type, filename |-> r.val[i].name,
                                  data |-> r.val[i].data]]]
                    ELSE Return(r)
          /\ beam' = beam
    /\ UNCHANGED << pfile, ret, log >>
    /\ UNCHANGED gvars

\* open_or_create_grf: Grf::open when the target exists, Grf::create_new
\* when it does not.
PatchOpenGrf ==
    /\ job.pc = "open_grf"
    /\ last.op = "none"
    /\ disk.path.st # "absent"
    /\ Open

PatchCreateGrf ==
    /\ job.pc = "open_grf"
    /\ last.op = "none"
    /\ disk.path.st = "absent"
    /\ CreateNew

\* open_or_create_grf(..)?
PatchGrfOpened ==
    /\ job.pc = "open_grf"
    /\ last.op \in {"open", "create_new"}
    /\ job' = IF last.res = "ok" THEN [job EXCEPT !.pc = "loop"]
              ELSE Return(Err(last.res))
    /\ UNCHANGED << pfile, beam, ret, log >>
    /\ UNCHANGED gvars

\* One iteration of the loop of a handler, up to its call of patch_file.
\*   beam  verify_file(..)?, the test of its value, extract_file(..)?
\*   gpf   extract_file(..)?
\*   thor  Add is staged, Remove is logged
\*   rgz   File is staged, Directory is passed over
PatchStep ==
    /\ job.pc = "loop"
    /\ job.idx <= Len(job.items)
    /\ LET item == job.items[job.idx]
           stage(data) == [job EXCEPT !.pc = "stage", !.cur = << item.filename, data >>]
           skip == [job EXCEPT !.idx = job.idx + 1]
       IN  \/ /\ job.kind = "beam"
              /\ LET v == BeamVerify(beam, pfile.data, item.filename)
                     d == BeamExtract(beam, pfile.data, item.filename)
                 IN  /\ job' = IF ~v.ok THEN Return(v)
                               ELSE IF ~v.val THEN Return(Err("PatchFailed"))
                               ELSE IF ~d.ok THEN Return(d)
                               ELSE stage(d.val)
                     /\ log' = IF v.ok /\ v.val
                               THEN [log EXCEPT !.verified = @ \cup {item.filename}]
                               ELSE log
           \/ /\ job.kind = "gpf"
              /\ LET d == ExtractFile(beam, pfile.data, item.filename) IN
                 job' = IF ~d.ok THEN Return(d) ELSE stage(d.val)
              /\ log' = log
           \/ /\ job.kind \in {"thor", "rgz"}
              /\ job' = IF item.type \in {"Add", "File"} THEN stage(BytesOf(item.data))
                        ELSE skip
              /\ log' = log
    /\ UNCHANGED << pfile, beam, ret >>
    /\ UNCHANGED gvars

\* grf.patch_file(filename, data)
PatchStage ==
    /\ job.pc = "stage"
    /\ nstage = job.stages
    /\ Stage(job.cur[1], job.cur[2])

PatchStaged ==
    /\ job.pc = "stage"
    /\ nstage = job.stages + 1
    /\ job' = [job EXCEPT !.pc = "loop", !.idx = job.idx + 1,
                          !.stages = job.stages + 1, !.cur = << >>]
    /\ UNCHANGED << pfile, beam, ret, log >>
    /\ UNCHANGED gvars

\* The loop is over: grf.save()? is next.
PatchLoopEnd ==
    /\ job.pc = "loop"
    /\ job.idx > Len(job.items)
    /\ job' = [job EXCEPT !.pc = "save"]
    /\ UNCHANGED << pfile, beam, ret, log >>
    /\ UNCHANGED gvars

\* grf.save()?: the call is made once.
PatchSaveCall == job.pc = "save" /\ ncommit = 0

PatchSaved ==
    /\ job.pc = "save"
    /\ pc = "idle"
    /\ ncommit = 1
    /\ job' = Return(IF last.res = "ok" THEN Ok(<< >>) ELSE Err(last.res))
    /\ UNCHANGED << pfile, beam, ret, log >>
    /\ UNCHANGED gvars

PatchNext ==
    \/ PatchClassify
    \/ PatchParse
    \/ PatchOpenGrf
    \/ PatchCreateGrf
    \/ PatchGrfOpened
    \/ PatchStep
    \/ PatchStage
    \/ PatchStaged
    \/ PatchLoopEnd
    \/ (PatchSaveCall /\ SaveUnsupported)
    \/ (PatchSaveCall /\ SaveNoPending)
    \/ (PatchSaveCall /\ SaveRename)
    \/ (PatchSaveCall /\ SaveRenameFails)
    \/ SaveCreate
    \/ SaveHeader
    \/ \E filename \in PatchNames : SaveCopy(filename)
    \/ \E filename \in PatchNames : SaveCopyFails(filename)
    \/ \E filename \in PatchNames : SavePatched(filename)
    \/ SaveTable
    \/ SavePatchHeader
    \/ SaveFinish
    \/ SaveStepFails
    \/ PatchSaved

SpecPatch == PatchInit /\ [][PatchNext]_vars

(***************************************************************************)
(* Rgz::from_bytes on the bodies a writer of the format produces, followed *)
(* by the bytes of a tail: the end tag, other tags, or nothing.            *)
(***************************************************************************)
\* The records of a list of entries as the format lays them out: the tag,
\* one length byte, the name, and for a file the u32 size and the bytes.
RECURSIVE RgzEncode(_)
RgzEncode(entries) ==
    IF entries = << >> THEN << >>
    ELSE LET e == Head(entries) IN
         (IF e.type = "File"
          THEN << 102, Len(e.name) >> \o e.name
                   \o << Len(e.data), 0, 0, 0 >> \o e.data
          ELSE << 100, Len(e.name) >> \o e.name)
             \o RgzEncode(Tail(entries))

\* File("a", b"1"), File("b", b"ex"), File("", b""), Directory("d") and
\* Directory("e"): names and contents that hold the bytes of tags.
RgzEntries ==
    {RgzFileEntry(<< 97 >>, << 49 >>), RgzFileEntry(<< 98 >>, << 101, 120 >>),
     RgzFileEntry(<< >>, << >>), RgzDirectory(<< 100 >>), RgzDirectory(<< 101 >>)}

\* The longest list of entries of a body.
MaxEntries == 2

RgzLists ==
    {<< >>} \cup UNION {[1..n -> RgzEntries] : n \in 1..MaxEntries}

\* What follows the records: 'e'; 'e' and then 'x'; 'e' and then a whole
\* record; nothing; 'x'; 'E'; a NUL; a file record cut short.
RgzTails ==
    {<< 101 >>, << 101, 120 >>, << 101, 100, 1, 100 >>, << >>, << 120 >>,
     << 69 >>, << 0 >>, << 102, 1 >>}

RgzLog(entries, tail) == [entries |-> entries, tail |-> tail]

RgzInit ==
    /\ \E entries \in RgzLists, tail \in RgzTails, gz \in BOOLEAN :
          /\ pfile = [path |-> PathOf(ExtRgz),
                      data |-> RgzFile(gz, RgzEncode(entries) \o tail)]
          /\ log = RgzLog(entries, tail)
    /\ disk = [path |-> NoFile, bak |-> NoFile]
    /\ good = NoFile
    /\ live = FALSE
    /\ grf = NoGrf
    /\ pc = "idle"
    /\ loc = NoLoc
    /\ last = Ret("none", "ok", FALSE)
    /\ created = FALSE
    /\ phase = "none"
    /\ before = EmptyMap
    /\ stagedSet = {}
    /\ expect = EmptyMap
    /\ nstage = 0
    /\ ncommit = 0
    /\ nopen = 0
    /\ nfail = 0
    /\ beam = NewBeam
    /\ job = << >>
    /\ ret = NoRet

\* Rgz::from_bytes of the file.
RgzParse ==
    /\ ret.op = "none"
    /\ ret' = [op |-> "from_bytes", arg |-> << >>, res |-> RgzFromBytes(pfile.data)]
    /\ UNCHANGED << pfile, beam, job, log >>
    /\ UNCHANGED gvars

RgzNext == RgzParse

SpecRgz == RgzInit /\ [][RgzNext]_vars

(***************************************************************************)
(* Thor::from_bytes and Rgz::from_bytes side by side: the THOR files are   *)
(* built from a list of records followed by a tail that is whole records,  *)
(* nothing, or a record cut short by the end of the body.                  *)
(***************************************************************************)
\* One record of a THOR body: the mode byte, the filename and, for mode 1,
\* the bytes added.
ThorRecord(mode, filename, data) == [mode |-> mode, filename |-> filename, data |-> data]

\* The records as the format lays them out: the mode, one length byte, the
\* filename, and for mode 1 the u32 size and the bytes.
RECURSIVE ThorEncode(_)
ThorEncode(records) ==
    IF records = << >> THEN << >>
    ELSE LET r == Head(records) IN
         << r.mode, Len(r.filename) >> \o r.filename
            \o (IF r.mode = 1 THEN << Len(r.data), 0, 0, 0 >> \o r.data ELSE << >>)
            \o ThorEncode(Tail(records))

\* Add("x", b"1"); Add("y", [2, 1]), whose bytes are those of a record
\* header; Add("", b""); Remove("y"); a record of mode 3 named "z".
ThorRecordSet ==
    {ThorRecord(1, << 120 >>, << 49 >>), ThorRecord(1, << 121 >>, << 2, 1 >>),
     ThorRecord(1, << >>, << >>), ThorRecord(2, << 121 >>, << >>),
     ThorRecord(3, << 122 >>, << >>)}

\* The longest list of records of a body.
MaxRecords == 2

ThorLists ==
    {<< >>} \cup UNION {[1..n -> ThorRecordSet] : n \in 1..MaxRecords}

\* What follows the records, and whether it is a record cut short: nothing;
\* a whole record of mode 0; then a mode byte alone; a filename cut; an Add
\* without its size; a size cut; bytes cut; a size of 65536; a Remove and a
\* record of mode 3 with their filenames cut.
ThorTails ==
    {[bytes |-> << >>, cut |-> FALSE],
     [bytes |-> << 0, 0 >>, cut |-> FALSE],
     [bytes |-> << 1 >>, cut |-> TRUE],
     [bytes |-> << 1, 2, 120 >>, cut |-> TRUE],
     [bytes |-> << 1, 1, 120 >>, cut |-> TRUE],
     [bytes |-> << 1, 1, 120, 1, 0 >>, cut |-> TRUE],
     [bytes |-> << 1, 1, 120, 2, 0, 0, 0, 49 >>, cut |-> TRUE],
     [bytes |-> << 1, 1, 120, 0, 0, 1, 0, 49 >>, cut |-> TRUE],
     [bytes |-> << 2, 1 >>, cut |-> TRUE],
     [bytes |-> << 3, 2, 122 >>, cut |-> TRUE]}

\* The first 28 bytes and the stream after them: a well-formed file, one
\* whose stream is no gzip stream, and files without the magic.
ThorFrames ==
    {[head |-> "magic", gz |-> TRUE], [head |-> "magic", gz |-> FALSE],
     [head |-> "short", gz |-> TRUE], [head |-> "other", gz |-> TRUE]}

ThorLog(records, tail) == [records |-> records, tail |-> tail.bytes, cut |-> tail.cut]

ThorInit ==
    /\ \E records \in ThorLists, tail \in ThorTails, frame \in ThorFrames :
          /\ pfile = [path |-> PathOf(ExtThor),
                      data |-> ThorFile(frame.head, frame.gz,
                                        ThorEncode(records) \o tail.bytes)]
          /\ log = ThorLog(records, tail)
    /\ disk = [path |-> NoFile, bak |-> NoFile]
    /\ good = NoFile
    /\ live = FALSE
    /\ grf = NoGrf
    /\ pc = "idle"
    /\ loc = NoLoc
    /\ last = Ret("none", "ok", FALSE)
    /\ created = FALSE
    /\ phase = "none"
    /\ before = EmptyMap
    /\ stagedSet = {}
    /\ expect = EmptyMap
    /\ nstage = 0
    /\ ncommit = 0
    /\ nopen = 0
    /\ nfail = 0
    /\ beam = NewBeam
    /\ job = << >>
    /\ ret = NoRet

ParseInit == ThorInit \/ RgzInit

\* Thor::from_bytes of the file.
ThorParse ==
    /\ ret.op = "none"
    /\ pfile.path = PathOf(ExtThor)
    /\ ret' = [op |-> "thor_from_bytes", arg |-> << >>,
               res |-> ThorFromBytes(pfile.data)]
    /\ UNCHANGED << pfile, beam, job, log >>
    /\ UNCHANGED gvars

ParseNext ==
    \/ ThorParse
    \/ (pfile.path = PathOf(ExtRgz) /\ RgzParse)

SpecParse == ParseInit /\ [][ParseNext]_vars

(***************************************************************************)
(* Grf::save on staged files of every size class, no filesystem step       *)
(* failing: files at and around the 1024-byte threshold, files that        *)
(* deflate to less, to as much and to more than their length.              *)
(***************************************************************************)
\* No byte; b"hello"; 1024 and 1025 bytes of "A"; 2048 bytes that do not
\* compress; 1020 such bytes and nine of "A", whose stream has the length of
\* the file, and ten of "A", whose stream is one byte shorter.
SizeDatas ==
    {<< >>, Hello, Fill(65, 1024), Fill(65, 1025), Noise(3, 2048),
     Cat(Noise(3, 1020), Fill(65, 9)), Cat(Noise(3, 1020), Fill(65, 10))}

SizeNames == {<< 97 >>, NameX}

SizeInit ==
    /\ \E f \in {NoFile, PreImage} : disk = [path |-> f, bak |-> NoFile] /\ good = f
    /\ live = FALSE
    /\ grf = NoGrf
    /\ pc = "idle"
    /\ loc = NoLoc
    /\ last = Ret("none", "ok", FALSE)
    /\ created = FALSE
    /\ phase = "none"
    /\ before = EmptyMap
    /\ stagedSet = {}
    /\ expect = EmptyMap
    /\ nstage = 0
    /\ ncommit = 0
    /\ nopen = 0
    /\ nfail = 0
    /\ pfile = << >>
    /\ beam = << >>
    /\ job = << >>
    /\ ret = << >>
    /\ log = << >>

SizeNext ==
    \/ CreateNew
    \/ Open
    \/ \E filename \in SizeNames, data \in SizeDatas : Stage(filename, data)
    \/ SaveNoPending
    \/ SaveRename
    \/ SaveCreate
    \/ SaveHeader
    \/ \E filename \in Names : SaveCopy(filename)
    \/ \E filename \in SizeNames : SavePatched(filename)
    \/ SaveTable
    \/ SavePatchHeader
    \/ SaveFinish

SpecSize == SizeInit /\ [][SizeNext]_vars

(***************************************************************************)
(* The offsets of Grf::save on containers of several GiB.  current_offset  *)
(* is a u32 advanced by `+=` (grf.rs:472, 518): a build with overflow       *)
(* checks panics when the sum passes 2^32 - 1, a build without them wraps. *)
(* Sizes and offsets are counted in words of 8 bytes, every aligned size   *)
(* being a multiple of 8; loc is the state of the loops of save.           *)
(***************************************************************************)
\* 2^32 bytes in words of 8 bytes.
U32_WORDS == 536870912

\* compressed_size_aligned of an entry, in words: 8 bytes, 2 GiB, 3 GiB and
\* 4 GiB less 8 bytes.
WideSizes == {1, 268435456, 402653184, 536870911}

\* The most entries of a wide container.
MaxWide == 3

WideLists ==
    {<< >>} \cup UNION {[1..n -> WideSizes] : n \in 1..MaxWide}

\* The entries in the order the two loops visit them (the first ncopy are
\* copied, the others staged), and whether the build checks overflow.
WideLog(sizes, ncopy, checked) == [sizes |-> sizes, ncopy |-> ncopy, checked |-> checked]

WideInit ==
    /\ \E sizes \in WideLists, checked \in BOOLEAN :
          \E ncopy \in 0..Len(sizes) : log = WideLog(sizes, ncopy, checked)
    /\ job = [pc |-> "body", idx |-> 1, pos |-> 0]
    /\ loc = [current_offset |-> 0, new_entries |-> << >>, table_offset |-> 0]
    /\ disk = [path |-> NoFile, bak |-> NoFile]
    /\ good = NoFile
    /\ live = FALSE
    /\ grf = NoGrf
    /\ pc = "idle"
    /\ last = Ret("none", "ok", FALSE)
    /\ created = FALSE
    /\ phase = "none"
    /\ before = EmptyMap
    /\ stagedSet = {}
    /\ expect = EmptyMap
    /\ nstage = 0
    /\ ncommit = 0
    /\ nopen = 0
    /\ nfail = 0
    /\ pfile = << >>
    /\ beam = << >>
    /\ ret = NoRet

\* new_entries.insert(.. offset: current_offset ..); current_offset +=
\* compressed_size_aligned.  job.pos is the position of the file cursor, a
\* u64, where the body was written.
WideAdvance(aligned) ==
    LET sum == loc.current_offset + aligned IN
    IF sum >= U32_WORDS /\ log.checked
    THEN /\ job' = [job EXCEPT !.pc = "panic"]
         /\ loc' = loc
    ELSE /\ job' = [job EXCEPT !.idx = job.idx + 1, !.pos = job.pos + aligned]
         /\ loc' = [loc EXCEPT
                !.new_entries = Append(loc.new_entries,
                    [offset |-> loc.current_offset, pos |-> job.pos,
                     compressed_size_aligned |-> aligned]),
                !.current_offset = sum % U32_WORDS]

\* One round of the copy loop.
WideCopy ==
    /\ job.pc = "body"
    /\ job.idx <= log.ncopy
    /\ WideAdvance(log.sizes[job.idx])
    /\ UNCHANGED << disk, live, grf, pc, last, hist, counters, pfile, beam, ret, log >>

\* One round of the loop over the staged files.
WidePatched ==
    /\ job.pc = "body"
    /\ job.idx > log.ncopy
    /\ job.idx <= Len(log.sizes)
    /\ WideAdvance(log.sizes[job.idx])
    /\ UNCHANGED << disk, live, grf, pc, last, hist, counters, pfile, beam, ret, log >>

\* let table_offset = current_offset; the table and the header are written.
WideTable ==
    /\ job.pc = "body"
    /\ job.idx > Len(log.sizes)
    /\ loc' = [loc EXCEPT !.table_offset = loc.current_offset]
    /\ job' = [job EXCEPT !.pc = "done"]
    /\ UNCHANGED << disk, live, grf, pc, last, hist, counters, pfile, beam, ret, log >>

WideNext == WideCopy \/ WidePatched \/ WideTable

SpecWide == WideInit /\ [][WideNext]_vars

(***************************************************************************)
(* Properties.                                                             *)
(***************************************************************************)
\* The records of the table a rebuilt file holds, located as save writes
\* them: the two sizes at FileTableOffset, then the deflated records.
WrittenRecords(f) ==
    LET meta == FileRead(f, f.toff, 8)
        compressed_table ==
            IF meta.ok THEN FileRead(f, f.toff + 8, ReadU32(meta.val, 0))
            ELSE Err("io")
        table_data ==
            IF compressed_table.ok THEN Inflate(compressed_table.val)
            ELSE Err("io")
    IN  IF table_data.ok /\ Len(table_data.val) = 1 /\ Head(table_data.val).k = "tbl"
        THEN Head(table_data.val).v
        ELSE << >>

\* The bytes the bodies of a table's records take in the file: the sum of
\* the compressed_size_aligned that save adds to current_offset.
RECURSIVE BodiesLen(_)
BodiesLen(recs) ==
    IF recs = << >> THEN 0
    ELSE Head(recs).compressed_size_aligned + BodiesLen(Tail(recs))

\* C1: create_new(p); stage(F, B); commit(); reopen(p); extract(F) returns
\* exactly B, for a filename F that is not empty: the reopen succeeds and
\* the bytes extracted are the bytes staged, with no padding after them.
C1_RoundTrip ==
    (created /\ nfail = 0 /\ nstage = 1 /\ ncommit = 1
     /\ phase \in {"reopened", "reopen_failed"}) =>
        /\ phase = "reopened"
        /\ \A f \in DOMAIN expect :
              Len(f) > 0 => ExtractFile(grf, disk.path, f) = Ok(expect[f])

\* C2: a container written by create_new and not touched since can be
\* opened: open succeeds, list() is empty and get_entry finds no filename.
C2_OpenAfterCreate ==
    (created /\ ncommit = 0 /\ last.op = "open") =>
        /\ last.res = "ok"
        /\ live
        /\ ListFiles(grf) = {}
        /\ \A f \in Names : ~HasEntry(grf, f)

\* C3: once a container exists, whatever commits were attempted and
\* wherever they failed, the disk holds an intact container: the last
\* intact image is at the path or at the backup path.
C3_Recoverable ==
    good.st # "absent" => (disk.path = good \/ disk.bak = good)

\* The three disk configurations of the commit protocol.
OnlyOriginal ==
    disk.bak.st = "absent" /\ disk.path.st = "complete" /\ phase # "committed"

BackupAndPartial == disk.bak.st # "absent" /\ disk.path.st = "partial"

OnlyFinishedNew ==
    disk.bak.st = "absent" /\ disk.path.st = "complete" /\ phase = "committed"

\* The states a rebuilding commit passes through after its rename, up to
\* and including the state its backup delete leaves.
InCommit == pc # "idle" \/ (pc = "idle" /\ phase = "committed")

\* C4 as stated: at every intermediate state of a commit with pending
\* patches exactly one of the three configurations holds: only the
\* original at the path, the backup with a partially written new file at
\* the path, only the finished new file at the path.
C4_ExactlyOneOfThree ==
    InCommit =>
        \/ (OnlyOriginal /\ ~BackupAndPartial /\ ~OnlyFinishedNew)
        \/ (~OnlyOriginal /\ BackupAndPartial /\ ~OnlyFinishedNew)
        \/ (~OnlyOriginal /\ ~BackupAndPartial /\ OnlyFinishedNew)

\* C4 as amended: during a commit with pending patches the backup is
\* present from the rename until it is deleted, together with no file at the
\* path (after the rename), a partially written new file (from the create
\* to the table write) or the finished new file (after the header patch);
\* after the backup delete only the finished new file is at the path.
C4_CommitConfigurations ==
    /\ pc = "renamed" => disk.bak.st # "absent" /\ disk.path.st = "absent"
    /\ pc \in {"created", "body", "table"} =>
          disk.bak.st # "absent" /\ disk.path.st = "partial"
    /\ pc = "patched" => disk.bak.st # "absent" /\ disk.path.st = "complete"
    /\ (pc = "idle" /\ phase = "committed") => OnlyFinishedNew

\* C4, reached: the header is patched and the backup not yet deleted, so
\* the finished new file and the backup are both on disk.
C4_Witness ==
    pc = "patched" /\ disk.bak.st = "complete" /\ disk.path.st = "complete"

\* C5: after a successful commit whose staged filenames are none of the
\* existing ones, and a reopen, every entry that existed is still listed
\* and extracts to the bytes it extracted to before the commit.
C5_CommitPreservesExisting ==
    (nfail = 0 /\ phase \in {"reopened", "reopen_failed"}
     /\ stagedSet \cap DOMAIN before = {}) =>
        /\ phase = "reopened"
        /\ \A f \in DOMAIN before :
              HasEntry(grf, f) /\ ExtractFile(grf, disk.path, f) = before[f]

\* C6: after a successful commit, a filename that was in the table and was
\* staged extracts to the staged bytes, and the rebuilt file holds no body
\* but those of its records, one for each name (the old body was not
\* copied).
C6_StageOverridesExisting ==
    (nfail = 0 /\ phase = "committed") =>
        /\ \A f \in stagedSet \cap DOMAIN before :
              ExtractFile(grf, disk.path, f) = Ok(expect[f])
        /\ disk.path.toff = BodiesLen(WrittenRecords(disk.path))

\* C7: after a successful commit the table of the rebuilt file holds one
\* record for each filename that existed or was staged, and no other, and
\* the header's file_count is the number of records.
C7_OneRecordPerName ==
    phase = "committed" =>
        LET recs == WrittenRecords(disk.path) IN
        /\ {recs[i].filename : i \in DOMAIN recs} = DOMAIN before \cup stagedSet
        /\ \A i, j \in DOMAIN recs : recs[i].filename = recs[j].filename => i = j
        /\ disk.path.count = Len(recs)

\* C7, reached: a commit that staged an existing filename and a new one.
C7_Witness ==
    /\ phase = "committed"
    /\ stagedSet \cap DOMAIN before # {}
    /\ stagedSet \ DOMAIN before # {}
    /\ Len(WrittenRecords(disk.path)) >= 2

C9_IdempotentCommit ==
    [][(/\ ncommit' = ncommit + 1
        /\ grf.version \in {GRF_VERSION_0X200, GRF_VERSION_0X300}
        /\ DOMAIN grf.pending_patches = {})
       => (/\ disk' = disk
           /\ grf' = grf
           /\ pc' = "idle"
           /\ last'.op = "commit" /\ last'.res = "ok" /\ ~last'.wrote)]_vars

\* C9, reached: a second commit right after one that rebuilt the file.
C9_Witness ==
    /\ phase = "committed"
    /\ last = Ret("commit", "ok", FALSE)
    /\ ncommit = 2
    /\ DOMAIN grf.entries # {}

\* C10: stage(filename, bytes) sets filename to bytes in the staged files,
\* replacing what was staged for it, and changes nothing else: not the
\* disk, not the table, and so not list(), get_entry() or extract().
C10_StageInMemory ==
    [][nstage' = nstage + 1
       => (/\ last'.op = "stage"
           /\ grf'.pending_patches =
                 [f \in DOMAIN grf.pending_patches \cup {last'.arg[1]} |->
                     IF f = last'.arg[1] THEN last'.arg[2]
                     ELSE grf.pending_patches[f]]
           /\ disk' = disk
           /\ grf'.entries = grf.entries
           /\ grf'.version = grf.version
           /\ \A f \in Names :
                 ExtractFile(grf', disk'.path, f) = ExtractFile(grf, disk.path, f))]_vars

\* C10, reached: a filename staged a second time on a handle whose table is
\* not empty.
C10_Witness ==
    /\ last.op = "stage"
    /\ nstage = 2
    /\ ncommit = 0
    /\ Cardinality(DOMAIN grf.pending_patches) = 1
    /\ DOMAIN grf.entries # {}

\* C11: a commit on a handle of version 0x101, 0x102 or 0x103 fails with
\* the unsupported error, with or without staged files, and changes neither
\* the two files on disk nor the handle (table and staged files).
C11_LegacyCommitRefused ==
    [][(/\ ncommit' = ncommit + 1
        /\ grf.version \in {GRF_VERSION_0X101, GRF_VERSION_0X102, GRF_VERSION_0X103})
       => (/\ last'.op = "commit" /\ last'.res = "Unsupported" /\ ~last'.wrote
           /\ disk' = disk
           /\ grf' = grf
           /\ pc' = "idle")]_vars

\* C11, reached: a refused commit on a 0x103 handle with a staged file, and
\* no backup on disk.
C11_Witness ==
    /\ last = Ret("commit", "Unsupported", FALSE)
    /\ grf.version = GRF_VERSION_0X103
    /\ DOMAIN grf.pending_patches # {}
    /\ disk.bak = NoFile

\* C12: detect_version and open both fail, returning no version and no
\* handle, on a file whose magic does not match or whose version field is
\* none of 0x101, 0x102, 0x103, 0x200, 0x300; when the magic does not match
\* the error is the one of the magic.
C12_VersionGating ==
    LET f == disk.path
        bad_magic == ~f.magic
        bad_version ==
            f.ver \notin {GRF_VERSION_0X101, GRF_VERSION_0X102, GRF_VERSION_0X103,
                          GRF_VERSION_0X200, GRF_VERSION_0X300}
    IN  (f.st # "absent" /\ f.hdr /\ (bad_magic \/ bad_version)) =>
           /\ last.op = "detect_version" =>
                 /\ last.res # "ok" /\ last.arg = << >>
                 /\ bad_magic => last.res = "InvalidGrfHeader"
           /\ last.op = "open" =>
                 /\ last.res # "ok" /\ ~live
                 /\ bad_magic => last.res = "InvalidGrfHeader"

\* C13: after a new archive was filled, saved and opened, extract of every
\* filename added returns the bytes added for it, verify is true, and the
\* offset of its entry is where its own deflated bytes lie in the file.
C13_BeamRoundTrip ==
    (log.origin = "opened" /\ log.sync /\ log.saved_by = "new" /\ log.flipped = {}) =>
        \A F \in DOMAIN log.stored :
            /\ BeamExtract(beam, pfile.data, F) = Ok(log.stored[F])
            /\ BeamVerify(beam, pfile.data, F) = Ok(TRUE)
            /\ BeamFileRead(pfile.data, beam.entries[F].offset, ZLen(log.stored[F]))
                  = Ok(Deflate(log.stored[F]))

\* C14: extract returns bytes only when their MD5 is the MD5 stored in the
\* entry; for an entry of a handle in step with the file, a stored MD5 that
\* differs from the MD5 of the file's bytes makes extract fail with the
\* checksum error and no bytes, and an entry whose MD5 is intact extracts to
\* its bytes whatever the other entries hold.
C14_ChecksumSafety ==
    \A F \in BeamNames :
        LET r == BeamExtract(beam, pfile.data, F) IN
        /\ r.ok => (F \in DOMAIN beam.entries
                    /\ Md5(r.val) = beam.entries[F].md5_hash)
        /\ (log.sync /\ F \in DOMAIN log.stored /\ F \in DOMAIN beam.entries) =>
              IF beam.entries[F].md5_hash = Md5(log.stored[F])
              THEN r = Ok(log.stored[F])
              ELSE r = Err("ChecksumMismatch") /\ r.val = << >>

\* C14, reached: extract of an entry whose stored MD5 has a flipped bit has
\* just failed with the checksum error, and the other entry of the archive
\* extracts to its bytes.
C14_Witness ==
    /\ log.sync /\ log.origin = "opened"
    /\ ret.op = "extract_file" /\ ret.res = Err("ChecksumMismatch")
    /\ \E G \in DOMAIN beam.entries :
          /\ G # ret.arg[1]
          /\ BeamExtract(beam, pfile.data, G) = Ok(log.stored[G])

\* C15: verify on an entry of a handle in step with the file returns the
\* boolean: true when the MD5 of the entry's bytes is the stored MD5, false
\* when it is not, and no error.
C15_VerifyReturnsBool ==
    (/\ ret.op = "verify_file"
     /\ log.sync
     /\ ret.arg[1] \in DOMAIN beam.entries \cap DOMAIN log.stored) =>
        ret.res = Ok(beam.entries[ret.arg[1]].md5_hash = Md5(log.stored[ret.arg[1]]))

\* C16: when a BEAM patch is applied, no file is staged into the container
\* before every entry of the archive has been verified, and an apply that
\* ends on a digest mismatch has staged nothing.
C16_VerifyBeforeStage ==
    job.kind = "beam" =>
        /\ nstage > 0 => log.verified = BeamListFiles(beam)
        /\ (job.pc = "done" /\ job.res \in {Err("ChecksumMismatch"), Err("PatchFailed")})
               => nstage = 0

\* C17: an apply_patch that returns an error before save was called leaves
\* the container path and its backup path as they were before the call.
C17_FailureLeavesTarget ==
    (job.pc = "done" /\ ~job.res.ok /\ ncommit = 0) => disk = log.disk0

\* C18: once the format is chosen it is the one the case-folded extension
\* names; a name of no format ends the call with UnknownPatchFormat, the
\* container neither opened, created nor written.
C18_Classification ==
    job.pc # "classify" =>
        IF log.fmt = "unknown"
        THEN /\ job.pc = "done"
             /\ job.res = Err("UnknownPatchFormat")
             /\ disk = log.disk0
             /\ ~live /\ last.op = "none"
             /\ nopen = 0 /\ nstage = 0 /\ ncommit = 0
        ELSE job.kind = log.fmt

\* "p.BEAM" was dispatched to the BEAM handler, which ran to its end.
C18_Witness ==
    /\ pfile.path = PathOf(<< 66, 69, 65, 77 >>)
    /\ job.kind = "beam"
    /\ job.pc = "done"
    /\ job.res.ok

\* The file a container image yields for a filename, through a new handle.
Extracted(f, filename) ==
    LET g == OpenGrf(f) IN
    IF g.ok THEN ExtractFile(g.val, f, filename) ELSE g

\* The bytes the last Add of filename carries in a list of THOR entries.
LastAdd(entries, filename) ==
    LET at == {i \in DOMAIN entries :
                  entries[i].type = "Add" /\ entries[i].filename = filename}
    IN  BytesOf(entries[CHOOSE i \in at : \A j \in at : j <= i].data)

\* C19: a THOR patch applied to a readable 0x200 container, no filesystem
\* step failing, succeeds; afterwards every added filename extracts to the
\* bytes of its Add, and every other file of the container, removed by the
\* patch or not, is present and extracts to what it did before.
C19_ThorApply ==
    LET parsed == ThorFromBytes(pfile.data)
        old == OpenGrf(log.disk0.path)
        added == {parsed.val[i].filename :
                     i \in {j \in DOMAIN parsed.val : parsed.val[j].type = "Add"}}
    IN  (/\ job.kind = "thor" /\ job.pc = "done"
         /\ log.disk0.path \in {PreImage, TriImage}
         /\ parsed.ok /\ nfail = 0)
        => /\ job.res.ok
           /\ \A filename \in added :
                 Extracted(disk.path, filename) = Ok(LastAdd(parsed.val, filename))
           /\ \A filename \in ListFiles(old.val) \ added :
                 /\ Extracted(disk.path, filename).ok
                 /\ Extracted(disk.path, filename) = Extracted(log.disk0.path, filename)

\* C20: Rgz::from_bytes of a gzip stream whose body is the records of a list
\* of entries followed by a tail.  When the tail starts with 'e' the result
\* is that list, files as File{name, bytes} and directories as
\* Directory{name}, in stream order, whatever follows the 'e'; when the tail
\* starts with a byte that is none of 'f', 'd', 'e' the result is the
\* InvalidRgzFormat error and carries no entry.
C20_RgzParse ==
    (ret.op = "from_bytes" /\ pfile.data.gz /\ log.tail # << >>) =>
        /\ log.tail[1] = 101 => ret.res = Ok(log.entries)
        /\ log.tail[1] \notin {100, 101, 102} => ret.res = Err("InvalidRgzFormat")

\* A file and a directory were parsed, and the parse ended at an 'e' that is
\* followed by another byte.
C20_Witness ==
    /\ ret.op = "from_bytes"
    /\ ret.res = Ok(<< RgzFileEntry(<< 98 >>, << 101, 120 >>), RgzDirectory(<< 101 >>) >>)
    /\ log.tail = << 101, 120 >>

\* The entries a list of THOR records stands for: Add for mode 1, Remove for
\* mode 2, nothing for another mode.
RECURSIVE ThorExpected(_)
ThorExpected(records) ==
    IF records = << >> THEN << >>
    ELSE LET r == Head(records) IN
         (IF r.mode = 1 THEN << ThorAdd(r.filename, r.data) >>
          ELSE IF r.mode = 2 THEN << ThorRemove(r.filename) >>
          ELSE << >>)
             \o ThorExpected(Tail(records))

\* C21: Thor::from_bytes fails with the header error on a file that is
\* short of 28 bytes or lacks the magic; on a body of whole records it
\* returns Add for mode 1, Remove for mode 2 and nothing for another mode,
\* in order; on a body whose last record is cut short it fails with the
\* MalformedArchive error and returns no entries.
C21_ThorParse ==
    (ret.op = "thor_from_bytes") =>
        /\ pfile.data.head # "magic" => ret.res = Err("InvalidThorHeader")
        /\ (pfile.data.head = "magic" /\ pfile.data.gz /\ ~log.cut)
               => ret.res = Ok(ThorExpected(log.records))
        /\ (pfile.data.head = "magic" /\ pfile.data.gz /\ log.cut)
               => ret.res = Err("MalformedArchive")

\* C22: a THOR parse that succeeds was of a body of whole records, read to
\* its end; an RGZ parse that succeeds was of a body with an 'e' tag after
\* its records.
C22_ParserTotality ==
    /\ (ret.op = "thor_from_bytes" /\ ret.res.ok) => ~log.cut
    /\ (ret.op = "from_bytes" /\ ret.res.ok)
           => (log.tail # << >> /\ log.tail[1] = 101)

\* C23: when save has rebuilt the file and returned Ok, on a handle of
\* version 0x200 or 0x300, opening the path succeeds and yields the entries
\* the handle holds, field by field, and the handle has nothing staged.
C23_HandleMatchesDisk ==
    (last = Ret("commit", "ok", TRUE) /\ phase = "committed") =>
        LET reopened == OpenGrf(disk.path) IN
        /\ reopened.ok
        /\ reopened.val.entries = grf.entries
        /\ DOMAIN grf.pending_patches = {}

\* C24: when save has rebuilt the file and returned Ok, every record of the
\* table written has flags 0x00 or 0x01, the records of staged files and
\* the records carried over from the file before.
C24_RebuiltUnencrypted ==
    (last = Ret("commit", "ok", TRUE) /\ phase = "committed") =>
        /\ \A filename \in DOMAIN grf.entries : grf.entries[filename].flags \in {0, 1}
        /\ LET recs == WrittenRecords(disk.path) IN
           \A i \in DOMAIN recs : recs[i].flags \in {0, 1}

\* C25: after a successful commit the entry of every file staged so far
\* has flags 0x01 and the deflated bytes as its body exactly when the file
\* is longer than 1024 bytes and its stream is shorter than the file, and
\* flags 0x00 and the bytes themselves otherwise; uncompressed_size is the
\* length of the file, compressed_size the length of the body and at most
\* uncompressed_size, compressed_size_aligned the next multiple of 8, and
\* the body is followed by zero bytes up to it.
C25_CompressionDecision ==
    (last = Ret("commit", "ok", TRUE) /\ phase = "committed") =>
        \A filename \in DOMAIN expect :
            LET bytes == expect[filename]
                deflated == BLen(bytes) > 1024 /\ ZLen(bytes) < BLen(bytes)
                payload == IF deflated THEN Deflate(bytes) ELSE bytes
                e == grf.entries[filename]
                pad == e.compressed_size_aligned - e.compressed_size
            IN  /\ e.flags = IF deflated THEN 1 ELSE 0
                /\ e.uncompressed_size = BLen(bytes)
                /\ e.compressed_size = BLen(payload)
                /\ e.compressed_size <= e.uncompressed_size
                /\ e.compressed_size_aligned % 8 = 0 /\ pad \in 0..7
                /\ FileRead(disk.path, e.offset, e.compressed_size_aligned)
                       = Ok(Cat(payload, Fill(0, pad)))

\* C25, reached: one commit wrote a file of 1025 bytes deflated and a file
\* whose stream has the length of the file raw.
C25_Witness ==
    /\ last = Ret("commit", "ok", TRUE) /\ phase = "committed"
    /\ DOMAIN expect = SizeNames
    /\ expect[<< 97 >>] = Fill(65, 1025)
    /\ grf.entries[<< 97 >>].flags = 1
    /\ expect[NameX] = Cat(Noise(3, 1020), Fill(65, 9))
    /\ grf.entries[NameX].flags = 0

\* C26: no step of a save that does not return Ok changes the handle, its
\* entries or its staged files: not the step that enters save, not a step
\* of the rebuild, not the step on which save returns an error; and a save
\* that returns an error on its first step (the rename failed, or the
\* version is refused) has changed no file.
C26_FailureKeepsHandle ==
    [][/\ (pc # "idle" /\ ~(pc' = "idle" /\ last'.res = "ok")) => grf' = grf
       /\ ncommit' # ncommit => grf' = grf
       /\ (ncommit' # ncommit /\ pc' = "idle" /\ last'.res # "ok") => disk' = disk]_vars

\* C26, reached: a save has failed after its rename, the new file is partly
\* written, and the handle still holds a staged file.
C26_Witness ==
    /\ pc = "idle"
    /\ last = Ret("commit", "io", TRUE)
    /\ disk.path.st = "partial"
    /\ DOMAIN grf.pending_patches # {}

\* The positions of the items of a patch that stage filename.
StagedAt(items, filename) ==
    {i \in DOMAIN items :
        items[i].type \in {"Add", "File"} /\ items[i].filename = filename}

\* The bytes stored for an entry of a container image: compressed_size bytes
\* at its offset, inflated when flags has bit 0.
StoredContent(f, filename) ==
    LET g == OpenGrf(f)
        e == g.val.entries[filename]
        body == FileRead(f, e.offset, e.compressed_size)
    IN  IF ~g.ok THEN g
        ELSE IF filename \notin DOMAIN g.val.entries THEN Err("FileNotFound")
        ELSE IF ~body.ok THEN body
        ELSE IF e.flags % 2 = 1 THEN Inflate(body.val)
        ELSE body

\* C27: after a THOR or RGZ patch was applied with success, the content
\* stored in the container for every filename the archive adds is that of
\* the last record of the archive that adds it.
C27_LastRecordWins ==
    (job.kind \in {"thor", "rgz"} /\ job.pc = "done" /\ job.res.ok) =>
        \A filename \in {job.items[i].filename : i \in DOMAIN job.items} :
            LET at == StagedAt(job.items, filename)
                final == CHOOSE i \in at : \A j \in at : j <= i
            IN  at # {} =>
                    StoredContent(disk.path, filename)
                        = Ok(BytesOf(job.items[final].data))

\* C27, reached: an RGZ archive that holds two file records of one name,
\* with different bytes, was applied to an existing container.
C27_Witness ==
    /\ job.kind = "rgz" /\ job.pc = "done" /\ job.res.ok
    /\ Cardinality(StagedAt(job.items, << 97 >>)) = 2
    /\ job.items[1].data # job.items[2].data
    /\ log.disk0.path = PreImage

\* C28: after an apply_patch that returned Ok the container path holds a
\* file that Grf::open opens, so that the next apply_patch can open it.
C28_PatchesCompose ==
    (job.pc = "done" /\ job.res.ok) => OpenGrf(disk.path).ok

\* C29: in the table of a rebuilt container every entry's offset is the
\* position at which its body was written, the ranges [offset, offset +
\* compressed_size_aligned) of the entries are pairwise disjoint, and they
\* cover [0, file_table_offset) exactly; no offset has wrapped.
C29_BodyLayout ==
    job.pc = "done" =>
        LET es == loc.new_entries
            RECURSIVE Total(_)
            Total(i) == IF i = 0 THEN 0 ELSE es[i].compressed_size_aligned + Total(i - 1)
        IN  /\ \A i \in DOMAIN es : es[i].offset = es[i].pos
            /\ \A i, j \in DOMAIN es :
                  i < j => \/ es[i].offset + es[i].compressed_size_aligned <= es[j].offset
                           \/ es[j].offset + es[j].compressed_size_aligned <= es[i].offset
            /\ \A i \in DOMAIN es :
                  es[i].offset + es[i].compressed_size_aligned <= loc.table_offset
            /\ Total(Len(es)) = loc.table_offset

\* The bytes a handle gives for one of its entries before a save: those
\* added since the handle was made, or else those extract_file reads.
BeamContent(b, f, filename) ==
    IF filename \in DOMAIN b.file_data THEN Ok(b.file_data[filename])
    ELSE BeamExtract(b, f, filename)

\* C30: a save through a handle obtained by open, with or without added
\* files, either succeeds and every entry then extracts to the bytes it had
\* before the save (the added bytes for an added entry), or fails and leaves
\* the archive file as it was.  A step that ends with the result of a save
\* and is not a damage of the disk is a save.
C30_ResavePreserves ==
    [][(ret'.op = "save" /\ log'.nflip = log.nflip /\ log.origin = "opened") =>
          IF ret'.res.ok
          THEN \A filename \in DOMAIN beam.entries :
                  LET was == BeamContent(beam, pfile.data, filename) IN
                  was.ok => BeamExtract(beam', pfile'.data, filename) = was
          ELSE pfile' = pfile]_vars

====
